---- MODULE Spec2Model ----
(***************************************************************************)
(* Collective-instance placement and action summarising of the scheduler:  *)
(* pcmk__assign_instances() and its helpers, and check_instance_state().   *)
(*                                                                         *)
(* The placement call is modelled as a state machine whose positions are   *)
(* the places of pcmk__assign_instances(): the reset of the node counts,   *)
(* the early loop, the final loop, and, inside assign_instance(), the      *)
(* place before and the place after ban_unavailable_allowed_nodes().       *)
(***************************************************************************)
EXTENDS Integers, Sequences, FiniteSets, TLC

(***************************************************************************)
(* Bounds of the model                                                     *)
(***************************************************************************)
\* the supplied list has 2..MaxInstances instances
MaxInstances == 3
\* max_total ranges over 0..MaxTotal
MaxTotal == 3
\* max_per_node ranges over 0..MaxPerNode
MaxPerNode == 2
\* the largest finite node score of an input
MaxScore == 1
\* pcmk__create_instance_actions() is given 1..MaxCreated instances
MaxCreated == 2
\* summary_action_flags() is given 0..MaxChildren children
MaxChildren == 2
\* option_list_default() is given 1..MaxOptions options
MaxOptions == 3

(***************************************************************************)
(* Scores, nodes, flags                                                    *)
(***************************************************************************)
INFINITY == 1000000
MinusInf == -INFINITY

\* "no node" / "no entry"
NULL == "NULL"

\* The cluster's nodes, in node-id order
NodeList == <<"a", "b">>
Nodes == {NodeList[k] : k \in 1..Len(NodeList)}
NodeRank(n) == CHOOSE k \in 1..Len(NodeList) : NodeList[k] = n

pe_rsc_orphan == "orphan"
pe_rsc_provisional == "provisional"
pe_rsc_allocating == "allocating"
pe_rsc_failed == "failed"

pcmk_is_set(flags, f) == f \in flags

VARIABLES
    nodes,            \* node id -> [online, weight]: the cluster's node objects
    collective,       \* [allowed_nodes: node id -> [weight, count], rsc_cons, rsc_cons_lhs]
    instances,        \* the supplied list: sequence of instance records
    entry,            \* the instances as they were on entry to the call
    max_total,
    max_per_node,
    available_nodes,  \* locals of pcmk__assign_instances
    all_coloc,
    optimal_per_node,
    assigned,
    iter,             \* index into the supplied list
    prefer,           \* argument of the assign_instance call in progress
    pc,               \* position in the call
    calls,            \* the number of calls made on these instances
    \* pcmk__create_instance_actions()
    created,          \* its list of instances, with the actions of each
    state,            \* its local "state": a set of enum instance_state bits
    pseudo,           \* task -> the collective's pseudo-action, once created
    notify,           \* [start_notify, stop_notify]: what the pointers lead to
    orderings,        \* the orderings order_actions() has added
    cpos,             \* index into the list
    cpc,              \* position in the call
    \* summary_action_flags()
    summarised,       \* its argument "action": the collective's own action
    sum_children,     \* its argument "children"
    sum_node,         \* its argument "node"
    sum_flags,        \* its local "flags": the summary
    any_runnable,
    spos,             \* index into the children
    spc,              \* position in the call
    \* pcmk__multi_update_actions()
    ord_first,        \* its argument "first": [rsc, task, uuid, flags]
    ord_then,         \* its argument "then"
    ord_node,         \* its argument "node"
    ord_flags,        \* its argument "flags": the flags of first for the ordering
    ord_type,         \* its argument "type": a set of enum pe_ordering flags
    rscs,             \* resource id -> [variant, meta, children]
    graph,            \* the ordering edges between actions
    changed,          \* its local "changed": a set of enum pcmk__updated flags
    logged,           \* the calls made to the primitive update and the error log
    added,            \* the edges order_actions() has created in this call
    opos,             \* index into the children of then's resource
    opc,              \* position in the call
    runs,             \* the number of calls made with these arguments
    \* option_list_default()
    option_list,      \* its argument "option_list", without the terminator
    opt_filter,       \* its argument "filter": a set of enum pcmk__opt_flags
    opt_all,          \* its argument "all"
    output,           \* the calls made to the output object, in order
    deprecated,       \* the GSList of the deprecated options kept for later
    advanced,         \* the GSList of the advanced options kept for later
    xpos,             \* index into option_list
    xpc               \* position in the call

placement == <<nodes, collective, instances, entry, max_total, max_per_node,
               available_nodes, all_coloc, optimal_per_node, assigned, iter,
               prefer, pc, calls>>

creation == <<created, state, pseudo, notify, orderings, cpos, cpc>>

summary == <<summarised, sum_children, sum_node, sum_flags, any_runnable,
             spos, spc>>

ordering == <<ord_first, ord_then, ord_node, ord_flags, ord_type, rscs, graph,
              changed, logged, added, opos, opc, runs>>

listing == <<option_list, opt_filter, opt_all, output, deprecated, advanced,
             xpos, xpc>>

vars == <<placement, creation, summary, ordering, listing>>

\* What an action of the placement leaves alone, besides its own variables
elsewhere == <<creation, summary, ordering, listing>>
inputs == <<nodes, entry, max_total, max_per_node, calls>>
locals == <<available_nodes, all_coloc, optimal_per_node>>

(***************************************************************************)
(* Helpers that live outside the files at hand                             *)
(***************************************************************************)
\* pcmk__node_available(node, consider_score, false): the node can run
\* resources, and with consider_score its score is not negative
pcmk__node_available(id, weight, consider_score) ==
    /\ nodes[id].online
    /\ (consider_score => weight >= 0)

\* pcmk__top_allowed_node(): the outermost parent's view of the node
pcmk__top_allowed_node(coll, id) ==
    IF id \in DOMAIN coll.allowed_nodes THEN id ELSE NULL

\* pcmk__add_scores(): saturating addition, a ban dominates
pcmk__add_scores(x, y) ==
    IF x <= MinusInf \/ y <= MinusInf THEN MinusInf
    ELSE IF x >= INFINITY \/ y >= INFINITY THEN INFINITY
    ELSE IF x + y >= INFINITY THEN INFINITY
    ELSE IF x + y <= MinusInf THEN MinusInf
    ELSE x + y

\* common_update_score(rsc, id, score): add score to the node's entry, if any
common_update_score(instance, id, score) ==
    [instance EXCEPT !.allowed_nodes =
        [n \in DOMAIN instance.allowed_nodes |->
            IF n = id THEN pcmk__add_scores(instance.allowed_nodes[n], score)
            ELSE instance.allowed_nodes[n]]]

\* resource_location(rsc, NULL, -INFINITY, tag): a location record banning
\* the resource from every node
resource_location(instance, tag) ==
    [instance EXCEPT
        !.allowed_nodes = [n \in DOMAIN instance.allowed_nodes |-> MinusInf],
        !.rsc_location = instance.rsc_location \cup {tag}]

\* pcmk__unassign_resource()
pcmk__unassign_resource(instance) ==
    IF instance.allocated_to = NULL THEN instance
    ELSE [instance EXCEPT !.flags = instance.flags \cup {pe_rsc_provisional},
                          !.allocated_to = NULL]

\* fns->location(instance, NULL, FALSE)
location(instance) == instance.allocated_to

\* pcmk__add_this_with() / pcmk__add_with_this()
pcmk__add_this_with(child, cons) ==
    [child EXCEPT !.this_with = Append(child.this_with, cons)]

pcmk__add_with_this(child, cons) ==
    [child EXCEPT !.with_this = Append(child.with_this, cons)]

\* pcmk__colocation_has_influence(cons, child)
pcmk__colocation_has_influence(cons, child) ==
    cons.influence \/ child.running_on = NULL

\* The nodes the native assign may choose among, best first: score
\* descending, then node id
Candidates(instance) ==
    {n \in DOMAIN instance.allowed_nodes :
        pcmk__node_available(n, instance.allowed_nodes[n], TRUE)}

Better(instance, n, m) ==
    \/ instance.allowed_nodes[n] > instance.allowed_nodes[m]
    \/ /\ instance.allowed_nodes[n] = instance.allowed_nodes[m]
       /\ NodeRank(n) < NodeRank(m)

BestNode(instance) ==
    IF Candidates(instance) = {} THEN NULL
    ELSE CHOOSE n \in Candidates(instance) :
            \A m \in Candidates(instance) \ {n} : Better(instance, n, m)

\* The node cmds->assign(instance, pref) chooses: the preferred node if it
\* is still the best choice, else the best node, else none
NativeChoice(instance, pref) ==
    LET best == BestNode(instance) IN
    IF /\ pref # NULL
       /\ pref \in Candidates(instance)
       /\ instance.allowed_nodes[pref] >= instance.allowed_nodes[best]
    THEN pref
    ELSE best

\* cmds->assign(instance, pref): a chosen node ends the provisional state; an
\* instance no node can take stays provisional and is banned everywhere
NativeAssign(instance, pref) ==
    LET chosen == NativeChoice(instance, pref) IN
    IF chosen = NULL
    THEN resource_location(instance, "no_node_available")
    ELSE [instance EXCEPT !.flags = instance.flags \ {pe_rsc_provisional},
                          !.allocated_to = chosen]

(***************************************************************************)
(* The functions of the file                                               *)
(***************************************************************************)
\* can_run_instance() without the test of the node's count
can_run_instance_ignores_count(instance, node, mpn) ==
    IF pcmk_is_set(instance.flags, pe_rsc_orphan) THEN FALSE
    ELSE IF ~pcmk__node_available(node, instance.allowed_nodes[node], FALSE)
    THEN FALSE
    ELSE IF pcmk__top_allowed_node(collective, node) = NULL THEN FALSE
    ELSE IF collective.allowed_nodes[node].weight < 0 THEN FALSE
    ELSE TRUE

\* can_run_instance() with > for >= in the test of the node's count
can_run_instance_count_off_by_one(instance, node, mpn) ==
    IF pcmk_is_set(instance.flags, pe_rsc_orphan) THEN FALSE
    ELSE IF ~pcmk__node_available(node, instance.allowed_nodes[node], FALSE)
    THEN FALSE
    ELSE IF pcmk__top_allowed_node(collective, node) = NULL THEN FALSE
    ELSE IF collective.allowed_nodes[node].weight < 0 THEN FALSE
    ELSE IF collective.allowed_nodes[node].count > mpn THEN FALSE
    ELSE TRUE

\* can_run_instance() without the test of the parent's score
can_run_instance_ignores_parent_score(instance, node, mpn) ==
    IF pcmk_is_set(instance.flags, pe_rsc_orphan) THEN FALSE
    ELSE IF ~pcmk__node_available(node, instance.allowed_nodes[node], FALSE)
    THEN FALSE
    ELSE IF pcmk__top_allowed_node(collective, node) = NULL THEN FALSE
    ELSE IF collective.allowed_nodes[node].count >= mpn THEN FALSE
    ELSE TRUE

can_run_instance(instance, node, mpn) ==
    IF pcmk_is_set(instance.flags, pe_rsc_orphan) THEN FALSE
    ELSE IF ~pcmk__node_available(node, instance.allowed_nodes[node], FALSE)
    THEN FALSE
    ELSE IF pcmk__top_allowed_node(collective, node) = NULL THEN FALSE
    ELSE IF collective.allowed_nodes[node].weight < 0 THEN FALSE
    ELSE IF collective.allowed_nodes[node].count >= mpn THEN FALSE
    ELSE TRUE

\* The orders in which a GHashTableIter may visit the nodes of a table
g_hash_table_iter(table) ==
    {order \in [1..Cardinality(table) -> table] :
        \A i, j \in 1..Cardinality(table) : order[i] = order[j] => i = j}

\* ban_unavailable_allowed_nodes() with the negation of its test lost
ban_available_allowed_nodes(instance, mpn, order) ==
    [instance EXCEPT !.allowed_nodes =
        [n \in DOMAIN instance.allowed_nodes |->
            IF can_run_instance(instance, n, mpn)
            THEN common_update_score(instance, n, MinusInf).allowed_nodes[n]
            ELSE instance.allowed_nodes[n]]]

\* ban_unavailable_allowed_nodes() leaving its loop after the first ban
RECURSIVE ban_first_unavailable_allowed_node(_, _, _)
ban_first_unavailable_allowed_node(instance, mpn, order) ==
    IF order = <<>> THEN instance
    ELSE IF ~can_run_instance(instance, Head(order), mpn)
    THEN common_update_score(instance, Head(order), MinusInf)
    ELSE ban_first_unavailable_allowed_node(instance, mpn, Tail(order))

\* The loop over instance->allowed_nodes, visited in the given order
RECURSIVE ban_unavailable_allowed_nodes(_, _, _)
ban_unavailable_allowed_nodes(instance, mpn, order) ==
    IF order = <<>> THEN instance
    ELSE ban_unavailable_allowed_nodes(
            IF ~can_run_instance(instance, Head(order), mpn)
            THEN common_update_score(instance, Head(order), MinusInf)
            ELSE instance,
            mpn, Tail(order))

RECURSIVE AppendThisWith(_, _, _, _)
AppendThisWith(child, cons, k, all) ==
    IF k > Len(cons) THEN child
    ELSE AppendThisWith(
            IF all \/ cons[k].score < 0 \/ cons[k].score = INFINITY
            THEN pcmk__add_this_with(child, cons[k]) ELSE child,
            cons, k + 1, all)

\* The loop over rsc_cons_lhs keeping the infinite scores as the loop over
\* rsc_cons does
RECURSIVE AppendWithThisInfinite(_, _, _, _)
AppendWithThisInfinite(child, cons, k, all) ==
    IF k > Len(cons) THEN child
    ELSE AppendWithThisInfinite(
            IF ~pcmk__colocation_has_influence(cons[k], child) THEN child
            ELSE IF all \/ cons[k].score < 0 \/ cons[k].score = INFINITY
            THEN pcmk__add_with_this(child, cons[k]) ELSE child,
            cons, k + 1, all)

RECURSIVE AppendWithThis(_, _, _, _)
AppendWithThis(child, cons, k, all) ==
    IF k > Len(cons) THEN child
    ELSE AppendWithThis(
            IF ~pcmk__colocation_has_influence(cons[k], child) THEN child
            ELSE IF all \/ cons[k].score < 0
            THEN pcmk__add_with_this(child, cons[k]) ELSE child,
            cons, k + 1, all)

\* append_parent_colocation() copying nothing
append_parent_colocation_none(rsc, child, all) == child

append_parent_colocation(rsc, child, all) ==
    AppendWithThis(AppendThisWith(child, rsc.rsc_cons, 1, all),
                   rsc.rsc_cons_lhs, 1, all)

\* The loop over rsc->allowed_nodes, visited in the given order: the
\* collective with the counts of the visited nodes zero, and the number of
\* available nodes among them
RECURSIVE reset_allowed_node_counts(_, _)
reset_allowed_node_counts(rsc, order) ==
    IF order = <<>> THEN [rsc |-> rsc, available_nodes |-> 0]
    ELSE LET node == Head(order)
             rest == reset_allowed_node_counts(
                        [rsc EXCEPT !.allowed_nodes[node].count = 0],
                        Tail(order))
         IN [rsc |-> rest.rsc,
             available_nodes |->
                IF pcmk__node_available(node, rsc.allowed_nodes[node].weight,
                                        FALSE)
                THEN rest.available_nodes + 1 ELSE rest.available_nodes]

pe__current_node(instance) == instance.running_on

\* preferred_node() returning no node for a current node the parent does
\* not allow
preferred_node_needs_parent(instance, optimal) ==
    IF \/ instance.running_on = NULL
       \/ ~pcmk_is_set(instance.flags, pe_rsc_provisional)
       \/ pcmk_is_set(instance.flags, pe_rsc_failed)
    THEN NULL
    ELSE LET node == pe__current_node(instance)
             parent_node == pcmk__top_allowed_node(collective, node)
         IN IF ~pcmk__node_available(node, nodes[node].weight, TRUE) THEN NULL
            ELSE IF parent_node = NULL THEN NULL
            ELSE IF collective.allowed_nodes[parent_node].count >= optimal
            THEN NULL
            ELSE node

\* preferred_node() without the test of the node's count
preferred_node_any_count(instance, optimal) ==
    IF \/ instance.running_on = NULL
       \/ ~pcmk_is_set(instance.flags, pe_rsc_provisional)
       \/ pcmk_is_set(instance.flags, pe_rsc_failed)
    THEN NULL
    ELSE LET node == pe__current_node(instance)
         IN IF ~pcmk__node_available(node, nodes[node].weight, TRUE) THEN NULL
            ELSE node

preferred_node(instance, optimal) ==
    IF \/ instance.running_on = NULL
       \/ ~pcmk_is_set(instance.flags, pe_rsc_provisional)
       \/ pcmk_is_set(instance.flags, pe_rsc_failed)
    THEN NULL
    ELSE LET node == pe__current_node(instance)
             parent_node == pcmk__top_allowed_node(collective, node)
         IN IF ~pcmk__node_available(node, nodes[node].weight, TRUE) THEN NULL
            ELSE IF /\ parent_node # NULL
                    /\ collective.allowed_nodes[parent_node].count >= optimal
            THEN NULL
            ELSE node

(***************************************************************************)
(* Inputs                                                                  *)
(***************************************************************************)
Instance(flags, running, allowed, alloc, loc) ==
    [flags |-> flags, running_on |-> running, allowed_nodes |-> allowed,
     allocated_to |-> alloc, rsc_location |-> loc,
     this_with |-> <<>>, with_this |-> <<>>]

AllZero == [n \in Nodes |-> 0]

\* Provisional instances with every node allowed at score 0
PlainInputs ==
    {Instance({pe_rsc_provisional}, r, AllZero, NULL, {}) :
        r \in Nodes \cup {NULL}}

\* Instances already assigned on entry: to a node, or to no node (banned)
AssignedInputs ==
    {Instance({}, NULL, AllZero, "a", {}),
     Instance({}, "a", [n \in Nodes |-> MinusInf], NULL, {"no_node_available"})}

\* Instances running on the first node with other scores or flags
SpecialInputs ==
    {Instance({pe_rsc_provisional}, "a", [AllZero EXCEPT !["b"] = MaxScore], NULL, {}),
     Instance({pe_rsc_provisional}, "a", [AllZero EXCEPT !["a"] = MinusInf], NULL, {}),
     Instance({pe_rsc_provisional}, "a", [n \in {"b"} |-> 0], NULL, {}),
     Instance({pe_rsc_provisional, pe_rsc_allocating}, "a", AllZero, NULL, {}),
     Instance({pe_rsc_provisional, pe_rsc_orphan}, "a", AllZero, NULL, {}),
     Instance({pe_rsc_provisional, pe_rsc_failed}, "a", AllZero, NULL, {})}

\* What the instances after the second may be
LaterInputs ==
    {Instance({pe_rsc_provisional}, r, AllZero, NULL, {}) : r \in {NULL, "b"}}

\* The supplied list: the first instance of any kind, the second plain or
\* already assigned, the others plain
InstanceLists ==
    UNION {{l \in [1..len -> PlainInputs \cup AssignedInputs \cup SpecialInputs] :
                /\ l[2] \in PlainInputs \cup AssignedInputs
                /\ \A k \in 3..len : l[k] \in LaterInputs} :
           len \in 2..MaxInstances}

NodeObject(online, weight) == [online |-> online, weight |-> weight]

\* A node object and the collective's entry for it, if it has one
NodeInput(online, weight, allowed, top_weight) ==
    [node |-> NodeObject(online, weight), allowed |-> allowed,
     top_weight |-> top_weight]

UsualNode == NodeInput(TRUE, 0, TRUE, 0)

NodeInputs ==
    {UsualNode,
     NodeInput(FALSE, 0, TRUE, 0),
     NodeInput(TRUE, -1, TRUE, 0),
     NodeInput(TRUE, 0, TRUE, MinusInf),
     NodeInput(TRUE, 0, FALSE, 0)}

\* The colocations of the collective
ParentCons ==
    <<[id |-> "c1", score |-> -1, influence |-> TRUE],
      [id |-> "c2", score |-> 1, influence |-> TRUE],
      [id |-> "c3", score |-> INFINITY, influence |-> TRUE]>>

ParentConsLhs ==
    <<[id |-> "l1", score |-> -1, influence |-> TRUE],
      [id |-> "l2", score |-> 1, influence |-> FALSE],
      [id |-> "l3", score |-> INFINITY, influence |-> TRUE],
      [id |-> "l4", score |-> -1, influence |-> FALSE]>>

Collective(cfg) ==
    [allowed_nodes |->
        [n \in {m \in Nodes : cfg[m].allowed} |->
            [weight |-> cfg[n].top_weight, count |-> 0]],
     rsc_cons |-> ParentCons,
     rsc_cons_lhs |-> ParentConsLhs]

\* Entry of pcmk__assign_instances(); no creation of actions in progress
Init ==
    /\ \E cfg \in [Nodes -> NodeInputs] :
          /\ \E n \in Nodes : cfg[n] = UsualNode
          /\ nodes = [n \in Nodes |-> cfg[n].node]
          /\ collective = Collective(cfg)
    /\ instances \in InstanceLists
    /\ entry = instances
    /\ max_total \in 0..MaxTotal
    /\ max_per_node \in 0..MaxPerNode
    /\ available_nodes = 0
    /\ all_coloc = FALSE
    /\ optimal_per_node = 0
    /\ assigned = 0
    /\ iter = 1
    /\ prefer = NULL
    /\ pc = "reset"
    /\ calls = 1
    /\ created = <<>>
    /\ state = {}
    /\ pseudo = <<>>
    /\ notify = <<>>
    /\ orderings = {}
    /\ cpos = 1
    /\ cpc = "idle"
    /\ summarised = [task |-> NULL, uuid |-> <<>>, flags |-> {}]
    /\ sum_children = <<>>
    /\ sum_node = NULL
    /\ sum_flags = {}
    /\ any_runnable = FALSE
    /\ spos = 1
    /\ spc = "idle"
    /\ ord_first = [rsc |-> NULL, task |-> NULL, uuid |-> <<>>, flags |-> {}]
    /\ ord_then = [rsc |-> NULL, task |-> NULL, uuid |-> <<>>, flags |-> {}]
    /\ ord_node = NULL
    /\ ord_flags = {}
    /\ ord_type = {}
    /\ rscs = <<>>
    /\ graph = {}
    /\ changed = {}
    /\ logged = {}
    /\ added = {}
    /\ opos = 1
    /\ opc = "idle"
    /\ runs = 0
    /\ option_list = <<>>
    /\ opt_filter = {}
    /\ opt_all = FALSE
    /\ output = <<>>
    /\ deprecated = <<>>
    /\ advanced = <<>>
    /\ xpos = 1
    /\ xpc = "idle"

(***************************************************************************)
(* pcmk__assign_instances()                                                *)
(***************************************************************************)
\* Entry of the call: the reset of the counts and the locals derived from it
ResetCounts ==
    /\ pc = "reset"
    /\ \E order \in g_hash_table_iter(DOMAIN collective.allowed_nodes) :
       LET r == reset_allowed_node_counts(collective, order) IN
       /\ collective' = r.rsc
       /\ available_nodes' = r.available_nodes
       /\ all_coloc' = (max_total < r.available_nodes)
       /\ optimal_per_node' =
            LET o == IF r.available_nodes > 0
                     THEN max_total \div r.available_nodes ELSE 0
            IN IF o < 1 THEN 1 ELSE o
    /\ assigned' = 0
    /\ iter' = 1
    /\ pc' = "early"
    /\ UNCHANGED <<elsewhere, inputs, instances, prefer>>

\* One test of the early loop's condition and, if it holds, the loop body
\* up to the call of assign_instance()
EarlyLoop ==
    /\ pc = "early"
    /\ IF iter <= Len(instances) /\ assigned < max_total
       THEN LET instance == append_parent_colocation(collective,
                                                     instances[iter], all_coloc)
                current == preferred_node(instance, optimal_per_node)
            IN /\ instances' = [instances EXCEPT ![iter] = instance]
               /\ IF current # NULL
                  THEN /\ prefer' = current
                       /\ pc' = "early_assign"
                       /\ iter' = iter
                  ELSE /\ prefer' = NULL
                       /\ pc' = "early"
                       /\ iter' = iter + 1
       ELSE /\ pc' = "final"
            /\ iter' = 1
            /\ UNCHANGED <<instances, prefer>>
    /\ UNCHANGED <<elsewhere, inputs, locals, collective, assigned>>

\* The final loop's test "assigned >= max_total", with > for >=
limit_reached_off_by_one(asg, mt) == asg > mt

\* The final loop's test "assigned >= max_total"
limit_reached(asg, mt) == asg >= mt

\* The final loop's branch for an instance over the limit, without its
\* location record
collective_limit_unrecorded(instance) == instance

\* The final loop's branch for an instance over the limit
collective_limit(instance) ==
    resource_location(instance, "collective_limit_reached")

\* One test of the final loop's condition and, if it holds, the loop body
\* up to the call of assign_instance()
FinalLoop ==
    /\ pc = "final"
    /\ IF iter > Len(instances)
       THEN /\ pc' = "done"
            /\ UNCHANGED <<instances, iter>>
       ELSE IF ~pcmk_is_set(instances[iter].flags, pe_rsc_provisional)
       THEN /\ iter' = iter + 1
            /\ UNCHANGED <<instances, pc>>
       ELSE IF limit_reached(assigned, max_total)
       THEN /\ instances' = [instances EXCEPT ![iter] =
                                collective_limit(instances[iter])]
            /\ iter' = iter + 1
            /\ UNCHANGED pc
       ELSE /\ pc' = "final_assign"
            /\ UNCHANGED <<instances, iter>>
    /\ prefer' = NULL
    /\ UNCHANGED <<elsewhere, inputs, locals, collective, assigned>>

InAssign == pc \in {"early_assign", "final_assign"}
InNative == pc \in {"early_native", "final_native"}
Caller == IF pc \in {"early_assign", "early_native"} THEN "early" ELSE "final"

\* The return of assign_instance() to the loop that called it
Return(result) ==
    /\ assigned' = IF result THEN assigned + 1 ELSE assigned
    /\ iter' = iter + 1
    /\ pc' = Caller
    /\ prefer' = NULL

\* The test for an assignment loop, never true
assignment_loop_ignored(instance) == FALSE

\* The test for an assignment loop: the instance is being assigned by a
\* caller further up
assignment_loop(instance) == pcmk_is_set(instance.flags, pe_rsc_allocating)

\* The test of the preferred node without the test of its score
preferred_absent(instance, pref) ==
    pref # NULL /\ pref \notin DOMAIN instance.allowed_nodes

\* The test of the preferred node: the instance does not allow it, or has a
\* negative score for it
preferred_unavailable(instance, pref) ==
    /\ pref # NULL
    /\ \/ pref \notin DOMAIN instance.allowed_nodes
       \/ instance.allowed_nodes[pref] < 0

\* assign_instance() up to and including ban_unavailable_allowed_nodes()
AssignEntry ==
    /\ InAssign
    /\ LET instance == instances[iter] IN
       IF ~pcmk_is_set(instance.flags, pe_rsc_provisional)
       THEN /\ Return(location(instance) # NULL)
            /\ UNCHANGED instances
       ELSE IF assignment_loop(instance)
       THEN /\ Return(FALSE)
            /\ UNCHANGED instances
       ELSE IF preferred_unavailable(instance, prefer)
       THEN /\ Return(FALSE)
            /\ UNCHANGED instances
       ELSE /\ \E order \in g_hash_table_iter(DOMAIN instance.allowed_nodes) :
                 instances' = [instances EXCEPT ![iter] =
                    ban_unavailable_allowed_nodes(instance, max_per_node,
                                                  order)]
            /\ pc' = IF pc = "early_assign" THEN "early_native" ELSE "final_native"
            /\ UNCHANGED <<assigned, iter, prefer>>
    /\ UNCHANGED <<elsewhere, inputs, locals, collective>>

\* assign_instance() keeping the better node instead of rolling back
assign_instance_no_rollback(instance, pref) ==
    LET after == NativeAssign(instance, pref)
    IN [instance |-> after, chosen |-> after.allocated_to]

\* assign_instance() rolling back the node but not the provisional flag
assign_instance_partial_rollback(instance, pref) ==
    LET backup == instance.allowed_nodes
        after == NativeAssign(instance, pref)
        chosen == after.allocated_to
    IN IF pref # NULL /\ chosen # NULL /\ chosen # pref
       THEN [instance |-> [after EXCEPT !.allowed_nodes = backup,
                                        !.allocated_to = NULL],
             chosen |-> NULL]
       ELSE [instance |-> after, chosen |-> chosen]

\* The outcome of the rest of assign_instance(): the instance, and the node
\* chosen for it (NULL: none)
assign_instance(instance, pref) ==
    LET backup == instance.allowed_nodes
        after == NativeAssign(instance, pref)
        chosen == after.allocated_to
    IN IF pref # NULL /\ chosen # NULL /\ chosen # pref
       THEN [instance |-> pcmk__unassign_resource(
                            [after EXCEPT !.allowed_nodes = backup]),
             chosen |-> NULL]
       ELSE [instance |-> after, chosen |-> chosen]

\* The count of the chosen node left as it is
count_assigned_never(coll, chosen) == coll

\* The count of the chosen node incremented twice
count_assigned_twice(coll, chosen) ==
    IF chosen = NULL THEN coll
    ELSE IF pcmk__top_allowed_node(coll, chosen) = NULL THEN coll
    ELSE [coll EXCEPT !.allowed_nodes[chosen].count = @ + 2]

\* The parent's count of the instances assigned to each node
count_assigned(coll, chosen) ==
    IF chosen = NULL THEN coll
    ELSE IF pcmk__top_allowed_node(coll, chosen) = NULL THEN coll
    ELSE [coll EXCEPT !.allowed_nodes[chosen].count = @ + 1]

\* assign_instance() from the native assign to its return
AssignNative ==
    /\ InNative
    /\ LET r == assign_instance(instances[iter], prefer) IN
       /\ instances' = [instances EXCEPT ![iter] = r.instance]
       /\ collective' = count_assigned(collective, r.chosen)
       /\ Return(r.chosen # NULL)
    /\ UNCHANGED <<elsewhere, inputs, locals>>

Next == ResetCounts \/ EarlyLoop \/ FinalLoop \/ AssignEntry \/ AssignNative

\* A second call of pcmk__assign_instances(), with the same arguments, on
\* the instances as the first call left them
AssignAgain ==
    /\ pc = "done"
    /\ calls = 1
    /\ calls' = 2
    /\ entry' = instances
    /\ pc' = "reset"
    /\ UNCHANGED <<elsewhere, locals, nodes, max_total, max_per_node,
                   collective, instances, assigned, iter, prefer>>

NextTwice == Next \/ AssignAgain

SpecTwice == Init /\ [][NextTwice]_vars

Spec == Init /\ [][Next]_vars

(***************************************************************************)
(* check_instance_state() and pcmk__create_instance_actions()              *)
(***************************************************************************)
\* enum pe_obj_types
pe_native == 0
pe_group == 1

instance_starting == "starting"
instance_stopping == "stopping"
instance_restarting == "restarting"
instance_active == "active"
instance_all == {instance_starting, instance_stopping, instance_restarting,
                 instance_active}

pe_action_optional == "optional"
pe_action_runnable == "runnable"
pe_action_pseudo == "pseudo"
pe_action_migrate_runnable == "migrate_runnable"

RSC_START == "start"
RSC_STARTED == "running"
RSC_STOP == "stop"
RSC_STOPPED == "stopped"

pcmk_all_flags_set(flags, wanted) == wanted \subseteq flags
pcmk_any_flags_set(flags, wanted) == flags \cap wanted # {}

\* The scan of a primitive's actions ending at the first start or stop
\* that counts
RECURSIVE ScanActionsUntilEither(_, _, _)
ScanActionsUntilEither(actions, k, instance_state) ==
    IF \/ k > Len(actions)
       \/ pcmk_any_flags_set(instance_state,
                             {instance_starting, instance_stopping})
    THEN instance_state
    ELSE LET action == actions[k]
             optional == pcmk_is_set(action.flags, pe_action_optional)
         IN ScanActionsUntilEither(actions, k + 1,
                IF action.task = RSC_START
                THEN IF ~optional /\ pcmk_is_set(action.flags, pe_action_runnable)
                     THEN instance_state \cup {instance_starting}
                     ELSE instance_state
                ELSE IF action.task = RSC_STOP
                THEN IF /\ ~optional
                        /\ pcmk_any_flags_set(action.flags,
                                {pe_action_pseudo, pe_action_runnable})
                     THEN instance_state \cup {instance_stopping}
                     ELSE instance_state
                ELSE instance_state)

\* The state of one primitive after its first k - 1 actions, scanned to the
\* end of the list or until a start and a stop have been seen
RECURSIVE ScanActions(_, _, _)
ScanActions(actions, k, instance_state) ==
    IF \/ k > Len(actions)
       \/ pcmk_all_flags_set(instance_state,
                             {instance_starting, instance_stopping})
    THEN instance_state
    ELSE LET action == actions[k]
             optional == pcmk_is_set(action.flags, pe_action_optional)
         IN ScanActions(actions, k + 1,
                IF action.task = RSC_START
                THEN IF ~optional /\ pcmk_is_set(action.flags, pe_action_runnable)
                     THEN instance_state \cup {instance_starting}
                     ELSE instance_state
                ELSE IF action.task = RSC_STOP
                THEN IF /\ ~optional
                        /\ pcmk_any_flags_set(action.flags,
                                {pe_action_pseudo, pe_action_runnable})
                     THEN instance_state \cup {instance_stopping}
                     ELSE instance_state
                ELSE instance_state)

\* check_instance_state() of a primitive, deciding "restarting" from the
\* state of all instances so far instead of this instance's own
check_primitive_state_aggregated(instance, st) ==
    LET seen == ScanActions(instance.actions, 1,
                    IF instance.running_on # NULL
                    THEN {instance_active} ELSE {})
        all == st \cup seen
    IN IF pcmk_all_flags_set(all, {instance_starting, instance_stopping})
       THEN all \cup {instance_restarting}
       ELSE all

\* check_instance_state() of a primitive: the caller's state with the bits
\* of this instance added
check_primitive_state(instance, st) ==
    LET seen == ScanActions(instance.actions, 1,
                    IF instance.running_on # NULL
                    THEN {instance_active} ELSE {})
        instance_state ==
            IF pcmk_all_flags_set(seen, {instance_starting, instance_stopping})
            THEN seen \cup {instance_restarting}
            ELSE seen
    IN st \cup instance_state

RECURSIVE check_instance_state(_, _)
RECURSIVE CheckChildren(_, _, _)
\* The loop over the children of a collective instance
CheckChildren(children, k, st) ==
    IF k > Len(children) \/ pcmk_all_flags_set(st, instance_all) THEN st
    ELSE CheckChildren(children, k + 1, check_instance_state(children[k], st))

check_instance_state(instance, st) ==
    IF pcmk_all_flags_set(st, instance_all) THEN st
    ELSE IF instance.variant > pe_native
    THEN CheckChildren(instance.children, 1, st)
    ELSE check_primitive_state(instance, st)

\* pe__new_rsc_pseudo_action(collective, task, optional, runnable)
pe__new_rsc_pseudo_action(task, optional, runnable) ==
    [task |-> task,
     flags |-> {pe_action_pseudo}
               \cup (IF optional THEN {pe_action_optional} ELSE {})
               \cup (IF runnable THEN {pe_action_runnable} ELSE {}),
     priority |-> 0]

pe__set_action_flags(action, flag) ==
    [action EXCEPT !.flags = action.flags \cup {flag}]

\* pe__clone_notif_pseudo_ops(): notification data, if the collective has
\* notifications enabled
pe__clone_notif_pseudo_ops(enabled, task) ==
    IF enabled THEN "new_" \o task ELSE NULL

(* Inputs *)
Action(task, flags) == [task |-> task, flags |-> flags]

Primitive(running, actions) ==
    [variant |-> pe_native, running_on |-> running, actions |-> actions,
     children |-> <<>>]

Group(children) ==
    [variant |-> pe_group, running_on |-> NULL, actions |-> <<>>,
     children |-> children]

MandatoryStart == Action(RSC_START, {pe_action_runnable})
MandatoryStop == Action(RSC_STOP, {pe_action_runnable})
ImpliedStop == Action(RSC_STOP, {pe_action_pseudo})

\* Primitives with the actions create_actions() has made for them
PrimitiveInputs ==
    {Primitive(NULL, <<>>),
     Primitive("a", <<>>),
     Primitive(NULL, <<MandatoryStart>>),
     Primitive("a", <<MandatoryStop>>),
     Primitive("a", <<ImpliedStop>>),
     Primitive("a", <<MandatoryStop, MandatoryStart>>),
     Primitive("a", <<ImpliedStop, MandatoryStart>>),
     Primitive("a", <<Action(RSC_START, {pe_action_optional, pe_action_runnable}),
                      MandatoryStop>>),
     Primitive("a", <<Action(RSC_START, {}), MandatoryStop>>),
     Primitive(NULL, <<MandatoryStart, Action(RSC_STOP, {})>>),
     Primitive(NULL, <<Action("monitor", {pe_action_runnable}), MandatoryStart,
                       Action(RSC_STOP, {pe_action_optional, pe_action_runnable})>>)}

\* The members of a cloned group
MemberInputs ==
    {Primitive(NULL, <<MandatoryStart>>),
     Primitive("a", <<MandatoryStop>>),
     Primitive("a", <<ImpliedStop, MandatoryStart>>)}

GroupInputs == {Group(<<x, y>>) : x \in MemberInputs, y \in MemberInputs}

\* What the caller passes as start_notify and stop_notify: no pointer, a
\* pointer to NULL, or a pointer to data made earlier
NotifyInputs == {"no_hook", NULL, "old_data"}

NoAction == [task |-> NULL, flags |-> {}, priority |-> 0]

\* Entry of pcmk__create_instance_actions(); no placement in progress
InitCreate ==
    /\ created \in UNION {[1..len -> PrimitiveInputs \cup GroupInputs] :
                            len \in 1..MaxCreated}
    /\ state = {}
    /\ pseudo = [start |-> NoAction, started |-> NoAction,
                 stop |-> NoAction, stopped |-> NoAction]
    /\ notify = [start_arg |-> NULL, stop_arg |-> NULL,
                 start_notify |-> NULL, stop_notify |-> NULL]
    /\ orderings = {}
    /\ cpos = 1
    /\ cpc = "loop"
    /\ nodes = [n \in Nodes |-> UsualNode.node]
    /\ collective = Collective([n \in Nodes |-> UsualNode])
    /\ instances = <<>>
    /\ entry = <<>>
    /\ max_total = 0
    /\ max_per_node = 0
    /\ available_nodes = 0
    /\ all_coloc = FALSE
    /\ optimal_per_node = 0
    /\ assigned = 0
    /\ iter = 1
    /\ prefer = NULL
    /\ pc = "idle"
    /\ calls = 0
    /\ summarised = [task |-> NULL, uuid |-> <<>>, flags |-> {}]
    /\ sum_children = <<>>
    /\ sum_node = NULL
    /\ sum_flags = {}
    /\ any_runnable = FALSE
    /\ spos = 1
    /\ spc = "idle"
    /\ ord_first = [rsc |-> NULL, task |-> NULL, uuid |-> <<>>, flags |-> {}]
    /\ ord_then = [rsc |-> NULL, task |-> NULL, uuid |-> <<>>, flags |-> {}]
    /\ ord_node = NULL
    /\ ord_flags = {}
    /\ ord_type = {}
    /\ rscs = <<>>
    /\ graph = {}
    /\ changed = {}
    /\ logged = {}
    /\ added = {}
    /\ opos = 1
    /\ opc = "idle"
    /\ runs = 0
    /\ option_list = <<>>
    /\ opt_filter = {}
    /\ opt_all = FALSE
    /\ output = <<>>
    /\ deprecated = <<>>
    /\ advanced = <<>>
    /\ xpos = 1
    /\ xpc = "idle"

\* The ordering of the notifications made whenever both hooks are given and
\* both lead to data
notify_ordered_whenever_both(start_arg, stop_arg, start_notify, stop_notify) ==
    /\ start_arg # "no_hook"
    /\ stop_arg # "no_hook"
    /\ start_notify # NULL
    /\ stop_notify # NULL

\* The test for ordering the notifications: the stop hook led to no data on
\* entry, the start hook is given, and both lead to data now
notify_ordered(start_arg, stop_arg, start_notify, stop_notify) ==
    /\ stop_arg = NULL
    /\ start_arg # "no_hook"
    /\ start_notify # NULL
    /\ stop_notify # NULL

\* "started" made runnable only if an instance is starting
started_runnable_if_starting(st) == pcmk_is_set(st, instance_starting)

\* The test for making "started" runnable
started_runnable(st) ==
    pcmk_any_flags_set(st, {instance_active, instance_starting})

\* "stop" made migrate-runnable unless some instance starts and some stops
stop_migrate_runnable_unless_both(st) ==
    ~pcmk_all_flags_set(st, {instance_starting, instance_stopping})

\* The test for making "stop" migrate-runnable
stop_migrate_runnable(st) == ~pcmk_is_set(st, instance_restarting)

\* One turn of the loop over the instances: the instance's actions exist
\* (create_actions) and its state is folded into "state"
CheckInstance ==
    /\ cpc = "loop"
    /\ cpos <= Len(created)
    /\ state' = check_instance_state(created[cpos], state)
    /\ cpos' = cpos + 1
    /\ UNCHANGED <<placement, summary, ordering, listing, created, pseudo, notify, orderings, cpc>>

\* The rest of pcmk__create_instance_actions(): the pseudo-actions of the
\* collective, the notifications and their ordering
CreatePseudoActions ==
    /\ cpc = "loop"
    /\ cpos > Len(created)
    /\ \E start_arg \in NotifyInputs, stop_arg \in NotifyInputs, enabled \in BOOLEAN :
        LET start == pe__new_rsc_pseudo_action(RSC_START,
                        ~pcmk_is_set(state, instance_starting), TRUE)
            started0 == [pe__new_rsc_pseudo_action(RSC_STARTED,
                            ~pcmk_is_set(state, instance_starting), FALSE)
                         EXCEPT !.priority = INFINITY]
            started == IF started_runnable(state)
                       THEN pe__set_action_flags(started0, pe_action_runnable)
                       ELSE started0
            start_notify == IF start_arg = NULL
                            THEN pe__clone_notif_pseudo_ops(enabled, RSC_START)
                            ELSE start_arg
            stop0 == pe__new_rsc_pseudo_action(RSC_STOP,
                        ~pcmk_is_set(state, instance_stopping), TRUE)
            stopped == [pe__new_rsc_pseudo_action(RSC_STOPPED,
                            ~pcmk_is_set(state, instance_stopping), TRUE)
                        EXCEPT !.priority = INFINITY]
            stop == IF stop_migrate_runnable(state)
                    THEN pe__set_action_flags(stop0, pe_action_migrate_runnable)
                    ELSE stop0
            stop_notify == IF stop_arg = NULL
                           THEN pe__clone_notif_pseudo_ops(enabled, RSC_STOP)
                           ELSE stop_arg
        IN /\ pseudo' = [start |-> start, started |-> started,
                         stop |-> stop, stopped |-> stopped]
           /\ notify' = [start_arg |-> start_arg, stop_arg |-> stop_arg,
                         start_notify |-> start_notify,
                         stop_notify |-> stop_notify]
           /\ orderings' =
                IF notify_ordered(start_arg, stop_arg, start_notify,
                                  stop_notify)
                THEN orderings \cup {[first |-> <<stop_notify, "post_done">>,
                                      then |-> <<start_notify, "pre">>,
                                      type |-> "optional"]}
                ELSE orderings
    /\ cpc' = "done"
    /\ UNCHANGED <<placement, summary, ordering, listing, created, state, cpos>>

NextCreate == CheckInstance \/ CreatePseudoActions

SpecCreate == InitCreate /\ [][NextCreate]_vars

(***************************************************************************)
(* summary_action_flags()                                                  *)
(***************************************************************************)
no_action == "no_action"

\* find_first_action(actions, NULL, task, on_node): the index of the first
\* action of that task, on that node if one is given; 0 if there is none
RECURSIVE find_first_action(_, _, _, _)
find_first_action(actions, k, task, on_node) ==
    IF k > Len(actions) THEN 0
    ELSE IF actions[k].task # task
    THEN find_first_action(actions, k + 1, task, on_node)
    ELSE IF on_node = NULL THEN k
    ELSE IF actions[k].node = NULL
    THEN find_first_action(actions, k + 1, task, on_node)
    ELSE IF actions[k].node = on_node THEN k
    ELSE find_first_action(actions, k + 1, task, on_node)

\* get_complex_task(child, task, TRUE): the task the children are asked for
get_complex_task(task) == task

\* The task a collective's action stands for. A uuid is the sequence of its
\* parts between underscores; for a notification the scan from the end of
\* the uuid extracts the part before the last one
clone_child_action(action) ==
    IF action.task \in {"notify", "notified"}
    THEN IF /\ Len(action.uuid) >= 3
            /\ ~(Len(action.uuid) = 3 /\ action.uuid[1] = "")
         THEN get_complex_task(action.uuid[Len(action.uuid) - 1])
         ELSE no_action
    ELSE get_complex_task(action.task)

\* cmds->action_flags(child_action, node)
action_flags(child_action) == child_action.flags

pe__clear_action_flags(action, flag) ==
    [action EXCEPT !.flags = action.flags \ {flag}]

\* One turn of the loop with every action of the task looked at, on
\* whatever node, instead of the first one found
summarise_child_any_action(acc, child, task_s, node) ==
    LET same == {k \in 1..Len(child.actions) : child.actions[k].task = task_s}
        clear == /\ pcmk_is_set(acc.flags, pe_action_optional)
                 /\ \E k \in same :
                        ~pcmk_is_set(child.actions[k].flags, pe_action_optional)
    IN IF same = {} THEN acc
       ELSE [flags |-> IF clear THEN acc.flags \ {pe_action_optional}
                       ELSE acc.flags,
             action |-> IF clear
                        THEN pe__clear_action_flags(acc.action, pe_action_optional)
                        ELSE acc.action,
             any_runnable |->
                \/ acc.any_runnable
                \/ \E k \in same :
                        pcmk_is_set(child.actions[k].flags, pe_action_runnable)]

\* One turn of the loop over the children: acc holds the summary so far,
\* the collective's action and any_runnable
summarise_child(acc, child, task_s, node) ==
    LET k == find_first_action(child.actions, 1, task_s,
                               IF child.children # <<>> THEN NULL ELSE node)
    IN IF k = 0 THEN acc
       ELSE LET child_flags == action_flags(child.actions[k])
                clear == /\ pcmk_is_set(acc.flags, pe_action_optional)
                         /\ ~pcmk_is_set(child_flags, pe_action_optional)
            IN [flags |-> IF clear THEN acc.flags \ {pe_action_optional}
                          ELSE acc.flags,
                action |-> IF clear
                           THEN pe__clear_action_flags(acc.action,
                                                       pe_action_optional)
                           ELSE acc.action,
                any_runnable |-> \/ acc.any_runnable
                                 \/ pcmk_is_set(child_flags, pe_action_runnable)]

(* Inputs *)
NodeAction(task, node, flags) == [task |-> task, node |-> node, flags |-> flags]

\* A child of the collective with its actions; a cloned group has members
Child(children, actions) == [children |-> children, actions |-> actions]

Optional == {pe_action_optional, pe_action_runnable}
Mandatory == {pe_action_runnable}
Unrunnable == {}

ChildInputs ==
    {Child(<<>>, <<>>),
     Child(<<>>, <<NodeAction(RSC_START, "a", Optional)>>),
     Child(<<>>, <<NodeAction(RSC_START, "a", Mandatory)>>),
     Child(<<>>, <<NodeAction(RSC_START, "b", Unrunnable)>>),
     Child(<<>>, <<NodeAction(RSC_STOP, "a", Optional),
                   NodeAction(RSC_STOP, "b", Mandatory)>>),
     Child(<<>>, <<NodeAction("monitor", "a", Mandatory),
                   NodeAction(RSC_START, "a", Optional)>>),
     Child(<<>>, <<NodeAction(RSC_STOP, "a", {pe_action_pseudo}),
                   NodeAction(RSC_START, "b", Mandatory)>>),
     Child(<<"m1", "m2">>, <<NodeAction(RSC_START, NULL,
                                {pe_action_pseudo, pe_action_runnable})>>),
     Child(<<"m1", "m2">>, <<NodeAction(RSC_STOP, NULL,
                                {pe_action_pseudo, pe_action_optional})>>)}

CollectiveAction(task, uuid, flags) == [task |-> task, uuid |-> uuid, flags |-> flags]

CollectiveActionInputs ==
    {CollectiveAction(t[1], t[2], f) :
        t \in {<<RSC_START, <<"C", "start", "0">> >>,
               <<RSC_STOP, <<"C", "stop", "0">> >>,
               <<"notify", <<"C", "pre", "notify", "start", "0">> >>,
               <<"notified", <<"C", "confirmed-post", "notify", "stop", "0">> >>},
        f \in {{pe_action_optional, pe_action_runnable, pe_action_pseudo},
               {pe_action_runnable, pe_action_pseudo},
               {pe_action_optional, pe_action_pseudo}}}

\* Entry of summary_action_flags(); nothing else in progress
InitSummary ==
    /\ summarised \in CollectiveActionInputs
    /\ sum_children \in UNION {[1..len -> ChildInputs] : len \in 0..MaxChildren}
    /\ sum_node \in Nodes \cup {NULL}
    /\ sum_flags = {pe_action_optional, pe_action_runnable, pe_action_pseudo}
    /\ any_runnable = FALSE
    /\ spos = 1
    /\ spc = "loop"
    /\ ord_first = [rsc |-> NULL, task |-> NULL, uuid |-> <<>>, flags |-> {}]
    /\ ord_then = [rsc |-> NULL, task |-> NULL, uuid |-> <<>>, flags |-> {}]
    /\ ord_node = NULL
    /\ ord_flags = {}
    /\ ord_type = {}
    /\ rscs = <<>>
    /\ graph = {}
    /\ changed = {}
    /\ logged = {}
    /\ added = {}
    /\ opos = 1
    /\ opc = "idle"
    /\ runs = 0
    /\ option_list = <<>>
    /\ opt_filter = {}
    /\ opt_all = FALSE
    /\ output = <<>>
    /\ deprecated = <<>>
    /\ advanced = <<>>
    /\ xpos = 1
    /\ xpc = "idle"
    /\ created = <<>>
    /\ state = {}
    /\ pseudo = <<>>
    /\ notify = <<>>
    /\ orderings = {}
    /\ cpos = 1
    /\ cpc = "idle"
    /\ nodes = [n \in Nodes |-> UsualNode.node]
    /\ collective = Collective([n \in Nodes |-> UsualNode])
    /\ instances = <<>>
    /\ entry = <<>>
    /\ max_total = 0
    /\ max_per_node = 0
    /\ available_nodes = 0
    /\ all_coloc = FALSE
    /\ optimal_per_node = 0
    /\ assigned = 0
    /\ iter = 1
    /\ prefer = NULL
    /\ pc = "idle"
    /\ calls = 0

\* One turn of the loop over the children
SummariseChild ==
    /\ spc = "loop"
    /\ spos <= Len(sum_children)
    /\ LET acc == summarise_child([flags |-> sum_flags, action |-> summarised,
                                   any_runnable |-> any_runnable],
                                  sum_children[spos],
                                  clone_child_action(summarised), sum_node)
       IN /\ sum_flags' = acc.flags
          /\ summarised' = acc.action
          /\ any_runnable' = acc.any_runnable
    /\ spos' = spos + 1
    /\ UNCHANGED <<placement, creation, ordering, listing, sum_children, sum_node, spc>>

\* The return of the summary with runnable cleared on the collective's own
\* action whether or not a node is given
SummaryReturnAnyNode ==
    /\ spc = "loop"
    /\ spos > Len(sum_children)
    /\ IF ~any_runnable
       THEN /\ sum_flags' = sum_flags \ {pe_action_runnable}
            /\ summarised' = pe__clear_action_flags(summarised,
                                                    pe_action_runnable)
       ELSE UNCHANGED <<sum_flags, summarised>>
    /\ spc' = "done"
    /\ UNCHANGED <<placement, creation, ordering, listing, sum_children, sum_node, any_runnable,
                   spos>>

\* After the loop: the check of any_runnable, and the return of the summary
SummaryReturn ==
    /\ spc = "loop"
    /\ spos > Len(sum_children)
    /\ IF ~any_runnable
       THEN /\ sum_flags' = sum_flags \ {pe_action_runnable}
            /\ summarised' = IF sum_node = NULL
                             THEN pe__clear_action_flags(summarised,
                                                         pe_action_runnable)
                             ELSE summarised
       ELSE UNCHANGED <<sum_flags, summarised>>
    /\ spc' = "done"
    /\ UNCHANGED <<placement, creation, ordering, listing, sum_children, sum_node, any_runnable,
                   spos>>

NextSummary == SummariseChild \/ SummaryReturn

SpecSummary == InitSummary /\ [][NextSummary]_vars

(***************************************************************************)
(* pcmk__multi_update_actions() and the interleaved pairing                *)
(***************************************************************************)
\* enum pe_obj_types, continued
pe_clone == 2
pe_container == 3

pe_rsc_block == "block"

RSC_ROLE_UNKNOWN == "Unknown"
RSC_ROLE_STOPPED == "Stopped"
RSC_ROLE_STARTED == "Started"

RSC_PROMOTE == "promote"
RSC_PROMOTED == "promoted"
RSC_DEMOTE == "demote"
RSC_DEMOTED == "demoted"

pe_order_optional == "optional"
pe_order_implies_then == "implies_then"
pe_order_runnable_left == "runnable_left"

pcmk__updated_none == {}
pcmk__updated_first == "updated_first"
pcmk__updated_then == "updated_then"

\* pcmk__ends_with(uuid, "_<task>_0"), a uuid being the sequence of its
\* parts between underscores
pcmk__ends_with(uuid, task) ==
    /\ Len(uuid) >= 3
    /\ uuid[Len(uuid) - 1] = task
    /\ uuid[Len(uuid)] = "0"

\* crm_is_true()
crm_is_true(s) == s \in {"true", "on", "yes", "y", "1"}

\* fns->location(rsc, NULL, current): where the resource is active now, or
\* where it has been assigned
fns_location(rsc, current) ==
    IF current THEN rsc.running_on ELSE rsc.allocated_to

\* fns->state(rsc, current)
fns_state(rsc, current) ==
    IF fns_location(rsc, current) # NULL THEN RSC_ROLE_STARTED
    ELSE RSC_ROLE_STOPPED

\* is_set_recursive(rsc, flag, TRUE)
is_set_recursive(rsc, flag) == pcmk_is_set(rsc.flags, flag)

\* is_child_compatible() without the test of the node
is_child_compatible_any_node(child_rsc, local_node, filter, current) ==
    LET next_role == fns_state(child_rsc, current)
        node == IF ~is_set_recursive(child_rsc, pe_rsc_block)
                THEN fns_location(child_rsc, current) ELSE NULL
    IN IF filter # RSC_ROLE_UNKNOWN /\ next_role # filter THEN FALSE
       ELSE node # NULL

is_child_compatible(child_rsc, local_node, filter, current) ==
    LET next_role == fns_state(child_rsc, current)
        node == IF ~is_set_recursive(child_rsc, pe_rsc_block)
                THEN fns_location(child_rsc, current) ELSE NULL
    IN IF filter # RSC_ROLE_UNKNOWN /\ next_role # filter THEN FALSE
       ELSE IF node # NULL /\ node = local_node THEN TRUE
       ELSE FALSE

\* pcmk__bundle_containers() lists the containers of a bundle; they are kept
\* as the children of the bundle
get_containers_or_children(rsc) == rsc.children

\* The index of the first compatible child of rsc, 0 if there is none
find_compatible_child_by_node(local_node, rsc, filter, current) ==
    IF local_node = NULL THEN 0
    ELSE LET children == get_containers_or_children(rsc)
             ok == {k \in 1..Len(children) :
                        is_child_compatible(children[k], local_node, filter,
                                            current)}
         IN IF ok = {} THEN 0
            ELSE CHOOSE k \in ok : \A j \in ok : k <= j

\* pcmk__sort_nodes(nodes, NULL): higher score first, then node id
RECURSIVE SortFrom(_, _)
SortFrom(allowed, rest) ==
    IF rest = {} THEN <<>>
    ELSE LET best == CHOOSE n \in rest : \A m \in rest \ {n} :
                        \/ allowed[n] > allowed[m]
                        \/ /\ allowed[n] = allowed[m]
                           /\ NodeRank(n) < NodeRank(m)
         IN <<best>> \o SortFrom(allowed, rest \ {best})

pcmk__sort_nodes(allowed) == SortFrom(allowed, DOMAIN allowed)

\* The loop of find_compatible_child() over the sorted allowed nodes
RECURSIVE TryNodes(_, _, _, _, _)
TryNodes(scratch, k, rsc, filter, current) ==
    IF k > Len(scratch) THEN 0
    ELSE LET pair == find_compatible_child_by_node(scratch[k], rsc, filter,
                                                   current)
         IN IF pair # 0 THEN pair
            ELSE TryNodes(scratch, k + 1, rsc, filter, current)

\* find_compatible_child() without the search through the allowed nodes
find_compatible_child_located_only(local_child, rsc, filter, current) ==
    find_compatible_child_by_node(fns_location(local_child, current), rsc,
                                  filter, current)

find_compatible_child(local_child, rsc, filter, current) ==
    LET local_node == fns_location(local_child, current)
    IN IF local_node # NULL
       THEN find_compatible_child_by_node(local_node, rsc, filter, current)
       ELSE TryNodes(pcmk__sort_nodes(local_child.allowed_nodes), 1, rsc,
                     filter, current)

\* can_interleave_actions() always asking then's resource for the meta
can_interleave_actions_then_governs(first, then) ==
    IF first.rsc = NULL \/ then.rsc = NULL THEN FALSE
    ELSE IF first.rsc = then.rsc THEN FALSE
    ELSE IF \/ rscs[first.rsc].variant < pe_clone
            \/ rscs[then.rsc].variant < pe_clone
    THEN FALSE
    ELSE crm_is_true(rscs[then.rsc].meta.interleave)

can_interleave_actions(first, then) ==
    IF first.rsc = NULL \/ then.rsc = NULL THEN FALSE
    ELSE IF first.rsc = then.rsc THEN FALSE
    ELSE IF \/ rscs[first.rsc].variant < pe_clone
            \/ rscs[then.rsc].variant < pe_clone
    THEN FALSE
    ELSE LET rsc == IF \/ pcmk__ends_with(then.uuid, RSC_STOP)
                       \/ pcmk__ends_with(then.uuid, RSC_DEMOTE)
                    THEN first.rsc ELSE then.rsc
             interleave_s == rscs[rsc].meta.interleave
         IN crm_is_true(interleave_s)

\* pcmk__assign_resource(rsc, NULL, true): the resource is assigned to no
\* node and pinned to -INFINITY everywhere; "changed" tells whether it had a
\* node before
pcmk__assign_resource(rsc) ==
    [rsc |-> [rsc EXCEPT
                !.allocated_to = NULL,
                !.flags = rsc.flags \ {pe_rsc_provisional},
                !.allowed_nodes = [n \in DOMAIN rsc.allowed_nodes |-> MinusInf]],
     changed |-> rsc.allocated_to # NULL]

\* The test of the ordering's type for implies_then only
inhibits_unmatched_implies_then_only(type) == pe_order_implies_then \in type

\* Whether a then-child without a compatible first-child must not be active
inhibits_unmatched(type) ==
    pcmk_any_flags_set(type, {pe_order_runnable_left, pe_order_implies_then})

\* An action in the graph: its owner, task and node
ActionId(owner, action) == <<owner, action.task, action.node>>
Edge(first_id, then_id, type) == [first |-> first_id, then |-> then_id, type |-> type]

\* order_actions(first, then, type): TRUE iff the edge is new
order_actions(edges, first_id, then_id, type) ==
    Edge(first_id, then_id, type) \notin edges

\* cmds->update_ordered_actions(first, then, node, flags, filter, type): the
\* flags of the two actions after the update, and what was updated
update_ordered_actions(first_flags, then_flags, flags, type) ==
    LET unrunnable == /\ pe_order_runnable_left \in type
                      /\ pe_action_runnable \notin flags
                      /\ pe_action_runnable \in then_flags
        required == /\ pe_order_implies_then \in type
                    /\ pe_action_optional \notin then_flags
                    /\ pe_action_optional \in first_flags
    IN [first |-> IF required THEN first_flags \ {pe_action_optional}
                  ELSE first_flags,
        then |-> IF unrunnable THEN then_flags \ {pe_action_runnable}
                 ELSE then_flags,
        changed |-> (IF unrunnable THEN {pcmk__updated_then} ELSE {})
                    \cup (IF required THEN {pcmk__updated_first} ELSE {})]

\* pcmk__get_rsc_in_container(): the actions of the resource inside a bundle
\* container, and whose they are
Contained(child) == child.has_contained
ContainedOwner(child) == Append(child.id, "rsc")

\* The child with the flags of one of its own actions, or of an action of
\* the resource it contains, replaced
SetActionFlags(child, inner, k, flags) ==
    IF inner THEN [child EXCEPT !.contained[k].flags = flags]
    ELSE [child EXCEPT !.actions[k].flags = flags]

LoggedCall(first_id, then_id) ==
    [call |-> "update_ordered_actions", first |-> first_id, then |-> then_id]
LoggedError(owner, task) ==
    [call |-> "crm_err", first |-> owner, then |-> task]
LoggedPropagation(then_id, next_id) ==
    [call |-> "pcmk__update_action_for_orderings", first |-> then_id,
     then |-> next_id]

(* Inputs *)
OrderedAction(rsc, task, flags) ==
    [rsc |-> rsc, task |-> task,
     uuid |-> <<IF rsc = NULL THEN "fence" ELSE rsc, task, "0">>,
     flags |-> flags \cup (IF rsc = NULL THEN {} ELSE {pe_action_pseudo})]

Resource(variant, interleave_s, children) ==
    [variant |-> variant, meta |-> [interleave |-> interleave_s],
     children |-> IF variant = pe_native THEN <<>> ELSE children]

OrderedChild(flags, alloc, running, actions) ==
    [id |-> <<>>, flags |-> flags, allocated_to |-> alloc,
     running_on |-> running, allowed_nodes |-> AllZero, actions |-> actions,
     has_contained |-> FALSE, contained |-> <<>>]

Container(alloc, running, actions, contained) ==
    [id |-> <<>>, flags |-> {}, allocated_to |-> alloc,
     running_on |-> running, allowed_nodes |-> AllZero, actions |-> actions,
     has_contained |-> TRUE, contained |-> contained]

\* The children numbered in list order
Numbered(rsc, children) ==
    [k \in 1..Len(children) |-> [children[k] EXCEPT !.id = <<rsc, k>>]]

StartOn(n) == NodeAction(RSC_START, n, Mandatory)
StopOn(n) == NodeAction(RSC_STOP, n, Mandatory)

\* The children of first's resource
FirstChildLists ==
    {<<OrderedChild({}, "a", NULL, <<StartOn("a")>>)>>,
     <<OrderedChild({}, "b", "b", <<NodeAction(RSC_START, "b", Optional)>>)>>,
     <<OrderedChild({}, "a", NULL, <<NodeAction(RSC_START, "a", Unrunnable)>>),
       OrderedChild({}, "b", "b", <<NodeAction(RSC_START, "b", Optional)>>)>>,
     <<OrderedChild({pe_rsc_block}, "a", "a", <<>>),
       OrderedChild({}, "a", NULL, <<StartOn("a")>>)>>,
     <<OrderedChild({}, NULL, "a", <<StopOn("a")>>)>>,
     <<OrderedChild({pe_rsc_orphan}, "a", "a", <<>>)>>,
     <<OrderedChild({}, "a", "a", <<>>)>>}

\* The allowed nodes of a child that is assigned to no node and prefers b
PrefersB == [n \in Nodes |-> IF n = "b" THEN MaxScore ELSE 0]

\* What a child of then's resource may be
ThenChildInputs ==
    {OrderedChild({}, "a", NULL, <<StartOn("a")>>),
     OrderedChild({}, "b", "b", <<StopOn("b"), StartOn("b")>>),
     [OrderedChild({}, NULL, "b",
        <<StopOn("b"), NodeAction(RSC_START, NULL, Unrunnable)>>)
        EXCEPT !.allowed_nodes = PrefersB],
     OrderedChild({}, "a", "a", <<>>),
     OrderedChild({pe_rsc_orphan}, "b", "b", <<StopOn("b")>>)}

ThenChildLists ==
    UNION {[1..len -> ThenChildInputs] : len \in 1..MaxChildren}

TypeInputs ==
    {{pe_order_runnable_left}, {pe_order_implies_then}, {pe_order_optional}}

OrderInput(first, then, node, type, first_rsc, then_rsc) ==
    [first |-> first, then |-> then, node |-> node, type |-> type,
     rscs |-> [r \in {"C1", "C2"} |->
                IF r = "C1"
                THEN [first_rsc EXCEPT !.children = Numbered("C1", @)]
                ELSE [then_rsc EXCEPT !.children = Numbered("C2", @)]]]

\* Two interleaved clones
InterleavedInputs ==
    {OrderInput(OrderedAction("C1", ft, Mandatory),
                OrderedAction("C2", tt, Mandatory), n, ty,
                Resource(pe_clone, "true", fc),
                Resource(pe_clone, "true", tc)) :
        ft \in {RSC_START, RSC_STOP, RSC_STOPPED},
        tt \in {RSC_START, RSC_STOP},
        n \in {NULL, "a"},
        ty \in TypeInputs,
        fc \in FirstChildLists,
        tc \in ThenChildLists}

\* Pairs of any kind: actions with and without a resource, of the same
\* resource, of resources of every variant, interleaved or not
DispatchInputs ==
    {OrderInput(OrderedAction(fr, RSC_START, ff),
                OrderedAction(tr, tt, tf), NULL, {pe_order_runnable_left},
                Resource(fv, fi,
                    <<OrderedChild({}, "a", NULL, <<StartOn("a")>>)>>),
                Resource(tv, ti,
                    <<OrderedChild({}, "a", NULL, <<StartOn("a")>>),
                      OrderedChild({}, "b", "b",
                        <<NodeAction(RSC_START, "b", Unrunnable),
                          StopOn("b")>>)>>)) :
        fr \in {NULL, "C1", "C2"},
        tr \in {NULL, "C2"},
        tt \in {RSC_START, RSC_STOP},
        ff \in {Mandatory, Unrunnable},
        tf \in {Mandatory, Optional},
        fv \in {pe_native, pe_group, pe_clone, pe_container},
        tv \in {pe_native, pe_clone, pe_container},
        fi \in {"true", "false"},
        ti \in {"true", "false", NULL}}

\* Two interleaved bundles, a container of each on node a
BundleInputs ==
    {OrderInput(OrderedAction("C1", ft, Mandatory),
                OrderedAction("C2", tt, Mandatory), NULL, ty,
                Resource(pe_container, "true",
                    <<Container("a", "a", <<StopOn("a"), StartOn("a")>>,
                                <<StopOn("a")>>)>>),
                Resource(pe_container, "true",
                    <<Container("a", "a", <<StopOn("a"), StartOn("a")>>,
                                <<NodeAction(RSC_PROMOTE, "a", Mandatory),
                                  NodeAction(RSC_DEMOTE, "a", Optional)>>)>>)) :
        ft \in {RSC_START, RSC_STOP, RSC_STOPPED},
        tt \in {RSC_START, RSC_STOP, RSC_PROMOTE, RSC_DEMOTE},
        ty \in TypeInputs}

OrderInputs == InterleavedInputs \cup DispatchInputs \cup BundleInputs

\* Entry of pcmk__multi_update_actions(); nothing else in progress
InitOrder ==
    /\ \E in \in OrderInputs :
        /\ ord_first = in.first
        /\ ord_then = in.then
        /\ ord_node = in.node
        /\ ord_flags = in.first.flags
        /\ ord_type = in.type
        /\ rscs = in.rscs
    /\ graph \in {{}, {Edge(<<<<"C2", 1>>, RSC_START, "a">>,
                            <<<<"C2", 1>>, "monitor", "a">>,
                            {pe_order_optional})}}
    /\ changed = pcmk__updated_none
    /\ logged = {}
    /\ added = {}
    /\ opos = 1
    /\ opc = "entry"
    /\ runs = 1
    /\ option_list = <<>>
    /\ opt_filter = {}
    /\ opt_all = FALSE
    /\ output = <<>>
    /\ deprecated = <<>>
    /\ advanced = <<>>
    /\ xpos = 1
    /\ xpc = "idle"
    /\ summarised = [task |-> NULL, uuid |-> <<>>, flags |-> {}]
    /\ sum_children = <<>>
    /\ sum_node = NULL
    /\ sum_flags = {}
    /\ any_runnable = FALSE
    /\ spos = 1
    /\ spc = "idle"
    /\ created = <<>>
    /\ state = {}
    /\ pseudo = <<>>
    /\ notify = <<>>
    /\ orderings = {}
    /\ cpos = 1
    /\ cpc = "idle"
    /\ nodes = [n \in Nodes |-> UsualNode.node]
    /\ collective = Collective([n \in Nodes |-> UsualNode])
    /\ instances = <<>>
    /\ entry = <<>>
    /\ max_total = 0
    /\ max_per_node = 0
    /\ available_nodes = 0
    /\ all_coloc = FALSE
    /\ optimal_per_node = 0
    /\ assigned = 0
    /\ iter = 1
    /\ prefer = NULL
    /\ pc = "idle"
    /\ calls = 0

order_args == <<ord_node, ord_flags, ord_type, runs>>
beyond_ordering == <<placement, creation, summary, listing>>

\* The choice with the primitive update made whether or not then has a
\* resource
DispatchWithoutResource ==
    /\ opc = "entry"
    /\ opc' = IF can_interleave_actions(ord_first, ord_then) THEN "interleave"
              ELSE IF ord_then.rsc # NULL THEN "primitive"
              ELSE "done"
    /\ IF can_interleave_actions(ord_first, ord_then) \/ ord_then.rsc # NULL
       THEN /\ changed' = pcmk__updated_none
            /\ UNCHANGED <<ord_first, ord_then>>
       ELSE LET u == update_ordered_actions(ord_first.flags, ord_then.flags,
                                            ord_flags, ord_type)
            IN /\ ord_first' = [ord_first EXCEPT !.flags = u.first]
               /\ ord_then' = [ord_then EXCEPT !.flags = u.then]
               /\ changed' = u.changed
    /\ opos' = 1
    /\ UNCHANGED <<beyond_ordering, order_args, rscs, graph, logged, added>>

\* The choice between the interleaved pairing and the ordering of then and
\* its children; an action without a resource has neither
Dispatch ==
    /\ opc = "entry"
    /\ opc' = IF can_interleave_actions(ord_first, ord_then) THEN "interleave"
              ELSE IF ord_then.rsc # NULL THEN "primitive"
              ELSE "done"
    /\ changed' = pcmk__updated_none
    /\ opos' = 1
    /\ UNCHANGED <<beyond_ordering, order_args, ord_first, ord_then, rscs,
                   graph, logged, added>>

\* The test of a missing action with the orphan flag left out
no_action_is_error_orphan_too(child, task) ==
    task \notin {RSC_STOP, RSC_DEMOTE}

\* The test that decides between crm_err() and crm_trace() when no action of
\* the task is found in the child
no_action_is_error(child, task) ==
    /\ ~pcmk_is_set(child.flags, pe_rsc_orphan)
    /\ task \notin {RSC_STOP, RSC_DEMOTE}

\* The part of a turn of the interleaved loop for a then-child that has a
\* compatible first-child: the two actions are looked up and ordered
PairChildren(then_child, first_child, fc) ==
    LET first_task == clone_child_action(ord_first)
        first_inner == /\ Contained(first_child)
                       /\ ord_first.task \in {RSC_STOP, RSC_STOPPED}
        first_actions == IF first_inner THEN first_child.contained
                         ELSE first_child.actions
        first_action == find_first_action(first_actions, 1, first_task, ord_node)
        then_inner == /\ Contained(then_child)
                      /\ ord_then.task \in {RSC_PROMOTE, RSC_PROMOTED,
                                            RSC_DEMOTE, RSC_DEMOTED}
        then_actions == IF then_inner THEN then_child.contained
                        ELSE then_child.actions
        then_action == find_first_action(then_actions, 1, ord_then.task, ord_node)
    IN IF first_action = 0
       THEN /\ logged' =
                IF no_action_is_error(first_child, first_task)
                THEN logged \cup {LoggedError(first_child.id, first_task)}
                ELSE logged
            /\ UNCHANGED <<rscs, graph, changed, added>>
       ELSE IF then_action = 0
       THEN /\ logged' =
                IF no_action_is_error(then_child, ord_then.task)
                THEN logged \cup {LoggedError(then_child.id, ord_then.task)}
                ELSE logged
            /\ UNCHANGED <<rscs, graph, changed, added>>
       ELSE LET first_id == ActionId(IF first_inner
                                     THEN ContainedOwner(first_child)
                                     ELSE first_child.id,
                                     first_actions[first_action])
                then_id == ActionId(IF then_inner
                                    THEN ContainedOwner(then_child)
                                    ELSE then_child.id,
                                    then_actions[then_action])
                new == order_actions(graph, first_id, then_id, ord_type)
                u == update_ordered_actions(
                        first_actions[first_action].flags,
                        then_actions[then_action].flags,
                        action_flags(first_actions[first_action]),
                        ord_type)
            IN /\ graph' = graph \cup {Edge(first_id, then_id, ord_type)}
               /\ added' = IF new
                           THEN added \cup {Edge(first_id, then_id, ord_type)}
                           ELSE added
               /\ changed' = changed
                    \cup (IF new THEN {pcmk__updated_first, pcmk__updated_then}
                          ELSE {})
                    \cup u.changed
               /\ logged' = logged \cup {LoggedCall(first_id, then_id)}
               /\ rscs' =
                    LET after_then ==
                            [rscs EXCEPT ![ord_then.rsc].children[opos] =
                                SetActionFlags(@, then_inner, then_action,
                                               u.then)]
                    IN [after_then EXCEPT ![ord_first.rsc].children[fc] =
                            SetActionFlags(@, first_inner, first_action,
                                           u.first)]

\* One turn of the loop of multi_update_interleave_actions()
InterleaveChild ==
    /\ opc = "interleave"
    /\ opos <= Len(get_containers_or_children(rscs[ord_then.rsc]))
    /\ LET current == \/ pcmk__ends_with(ord_first.uuid, RSC_STOPPED)
                      \/ pcmk__ends_with(ord_first.uuid, RSC_DEMOTED)
           then_child == get_containers_or_children(rscs[ord_then.rsc])[opos]
           fc == find_compatible_child(then_child, rscs[ord_first.rsc],
                                       RSC_ROLE_UNKNOWN, current)
       IN IF fc = 0 /\ current
          THEN UNCHANGED <<rscs, graph, changed, logged, added>>
          ELSE IF fc = 0
          THEN IF inhibits_unmatched(ord_type)
               THEN LET r == pcmk__assign_resource(then_child)
                    IN /\ rscs' = [rscs EXCEPT
                                    ![ord_then.rsc].children[opos] = r.rsc]
                       /\ changed' = IF r.changed
                                     THEN changed \cup {pcmk__updated_then}
                                     ELSE changed
                       /\ UNCHANGED <<graph, logged, added>>
               ELSE UNCHANGED <<rscs, graph, changed, logged, added>>
          ELSE PairChildren(then_child,
                    get_containers_or_children(rscs[ord_first.rsc])[fc], fc)
    /\ opos' = opos + 1
    /\ UNCHANGED <<beyond_ordering, order_args, ord_first, ord_then, opc>>

\* pcmk__update_ordered_actions(first, then, ...) of the non-interleaved path
PrimitiveUpdate ==
    /\ opc = "primitive"
    /\ LET u == update_ordered_actions(ord_first.flags, ord_then.flags,
                                       ord_flags, ord_type)
       IN /\ ord_first' = [ord_first EXCEPT !.flags = u.first]
          /\ ord_then' = [ord_then EXCEPT !.flags = u.then]
          /\ changed' = changed \cup u.changed
    /\ logged' = logged \cup
            {LoggedCall(<<<<ord_first.rsc>>, ord_first.task, NULL>>,
                        <<<<ord_then.rsc>>, ord_then.task, NULL>>)}
    /\ opos' = 1
    /\ opc' = "children"
    /\ UNCHANGED <<beyond_ordering, order_args, rscs, graph, added>>

\* The test of the child's action with unrunnable actions let through
then_child_runnable_or_not(then_child_flags) == TRUE

\* The test that lets the child's action be updated
then_child_runnable(then_child_flags) ==
    pcmk_is_set(then_child_flags, pe_action_runnable)

\* One turn of the loop over the children of then's resource in the
\* non-interleaved path
OrderChild ==
    /\ opc = "children"
    /\ opos <= Len(get_containers_or_children(rscs[ord_then.rsc]))
    /\ LET then_child == get_containers_or_children(rscs[ord_then.rsc])[opos]
           then_child_action == find_first_action(then_child.actions, 1,
                                                  ord_then.task, ord_node)
       IN IF then_child_action = 0
          THEN UNCHANGED <<ord_first, rscs, changed, logged>>
          ELSE LET then_child_flags ==
                        action_flags(then_child.actions[then_child_action])
                   then_id == ActionId(then_child.id,
                                       then_child.actions[then_child_action])
                   u == update_ordered_actions(ord_first.flags,
                            then_child.actions[then_child_action].flags,
                            ord_flags, ord_type)
               IN IF ~then_child_runnable(then_child_flags)
                  THEN UNCHANGED <<ord_first, rscs, changed, logged>>
                  ELSE /\ ord_first' = [ord_first EXCEPT !.flags = u.first]
                       /\ rscs' = [rscs EXCEPT
                                    ![ord_then.rsc].children[opos] =
                                        SetActionFlags(@, FALSE,
                                            then_child_action, u.then)]
                       /\ changed' = changed \cup u.changed
                       /\ logged' = logged
                            \cup {LoggedCall(<<<<ord_first.rsc>>,
                                               ord_first.task, NULL>>, then_id)}
                            \cup (IF pcmk__updated_then \in u.changed
                                  THEN {LoggedPropagation(then_id, e.then) :
                                            e \in {x \in graph : x.first = then_id}}
                                  ELSE {})
    /\ opos' = opos + 1
    /\ UNCHANGED <<beyond_ordering, order_args, ord_then, graph, added, opc>>

\* The end of either loop, and the return of "changed"
OrderReturn ==
    /\ opc \in {"interleave", "children"}
    /\ opos > Len(get_containers_or_children(rscs[ord_then.rsc]))
    /\ opc' = "done"
    /\ UNCHANGED <<beyond_ordering, order_args, ord_first, ord_then, rscs,
                   graph, changed, logged, added, opos>>

\* A second call with the same first, then and type on the graph the first
\* call has produced
OrderAgain ==
    /\ opc = "done"
    /\ runs = 1
    /\ runs' = 2
    /\ added' = {}
    /\ logged' = {}
    /\ opos' = 1
    /\ opc' = "entry"
    /\ UNCHANGED <<beyond_ordering, ord_first, ord_then, ord_node, ord_flags,
                   ord_type, rscs, graph, changed>>

NextOrder ==
    Dispatch \/ InterleaveChild \/ PrimitiveUpdate \/ OrderChild \/ OrderReturn

SpecOrder == InitOrder /\ [][NextOrder]_vars

NextOrderTwice == NextOrder \/ OrderAgain

SpecOrderTwice == InitOrder /\ [][NextOrderTwice]_vars

(***************************************************************************)
(* option_list_default()                                                   *)
(***************************************************************************)
\* enum pcmk__opt_flags
pcmk__opt_advanced == "advanced"
pcmk__opt_deprecated == "deprecated"
pcmk__opt_generated == "generated"

\* A string is a sequence of pieces, each a delimiter character or a run of
\* other characters; this is the NULL pointer to one
NullString == <<NULL>>

\* The characters of "delim" (line 37), as strtok() reads it
Delimiters == {",", " "}

\* The tokens of str after those found so far, "run" being the pieces of
\* the token in progress
RECURSIVE Tokens(_, _)
Tokens(str, run) ==
    IF str = <<>> THEN IF run = <<>> THEN <<>> ELSE <<run>>
    ELSE IF Head(str) \in Delimiters
    THEN (IF run = <<>> THEN <<>> ELSE <<run>>) \o Tokens(Tail(str), <<>>)
    ELSE Tokens(Tail(str), Append(run, Head(str)))

\* strtok(str, delim) called until it returns NULL: the maximal runs of str
\* free of delimiter characters, in order
strtok(str) == Tokens(str, <<>>)

\* The calls of the output object
OutCall(call, id, text) == [call |-> call, id |-> id, text |-> text]
info(text) == OutCall("info", NULL, <<text>>)
spacer == OutCall("spacer", NULL, <<>>)
begin_list(title) ==
    OutCall("begin_list", NULL, IF title = NULL THEN <<>> ELSE <<title>>)
list_item(id, text) == OutCall("list_item", id, text)
end_list == OutCall("end_list", NULL, <<>>)

g_slist_prepend(list, data) == <<data>> \o list

RECURSIVE g_slist_reverse(_)
g_slist_reverse(list) ==
    IF list = <<>> THEN <<>>
    ELSE Append(g_slist_reverse(Tail(list)), Head(list))

\* found_default taken as true whatever the default value
found_default_always(default_value) == TRUE

\* The initial value of found_default
found_default_initially(default_value) == default_value = NullString

\* The loop over the tokens of option->values
RECURSIVE AppendValues(_, _, _, _)
AppendValues(buf, values, default_value, found_default) ==
    IF values = <<>> THEN buf
    ELSE LET value == Head(values)
             is_default == ~found_default /\ value = default_value
         IN AppendValues(
                buf \o (IF Len(buf) > 0 THEN <<", ">> ELSE <<>>)
                    \o <<"\"">> \o value \o <<"\"">>
                    \o (IF is_default THEN <<" (default)">> ELSE <<>>),
                Tail(values), default_value, found_default \/ is_default)

\* The list item add_possible_values_default() outputs
add_possible_values_default(option) ==
    LET id == IF pcmk_is_set(option.flags, pcmk__opt_generated)
              THEN "Possible values (generated by Pacemaker)"
              ELSE "Possible values"
        buf == IF option.values # NullString /\ option.type = "select"
               THEN AppendValues(<<>>, strtok(option.values),
                        option.default_value,
                        found_default_initially(option.default_value))
               ELSE IF option.default_value # NullString
               THEN <<option.type, " (default: \"">>
                        \o option.default_value \o <<"\")">>
               ELSE <<option.type, " (no default)">>
    IN list_item(id, buf)

\* The calls add_option_metadata_default() makes
add_option_metadata_default(option) ==
    LET desc_short == IF option.description_short = NULL
                      THEN option.description_long
                      ELSE option.description_short
        desc_long == IF option.description_short = NULL
                     THEN NULL ELSE option.description_long
    IN <<list_item(option.name, <<desc_short>>), begin_list(NULL)>>
       \o (IF desc_long # NULL THEN <<list_item(NULL, <<desc_long>>)>>
           ELSE <<>>)
       \o <<add_possible_values_default(option), end_list>>

\* show_advanced true whatever the arguments
show_advanced_always(all, filter) == TRUE

\* show_deprecated true whatever the arguments
show_deprecated_always(all, filter) == TRUE

show_deprecated(all, filter) == all \/ pcmk_is_set(filter, pcmk__opt_deprecated)
show_advanced(all, filter) == all \/ pcmk_is_set(filter, pcmk__opt_advanced)

\* A spacer and the metadata of each option of the list, in its order
RECURSIVE OutputEach(_)
OutputEach(list) ==
    IF list = <<>> THEN <<>>
    ELSE <<spacer>> \o add_option_metadata_default(Head(list))
                    \o OutputEach(Tail(list))

\* The group of the options in the order the GSList has after the prepends
OutputGroupAsPrepended(list, title) ==
    IF list = <<>> THEN <<>>
    ELSE <<spacer, begin_list(title)>> \o OutputEach(list) \o <<end_list>>

\* The group of the options kept in a GSList, if there are any
OutputGroup(list, title) ==
    IF list = <<>> THEN <<>>
    ELSE <<spacer, begin_list(title)>> \o OutputEach(g_slist_reverse(list))
                                       \o <<end_list>>

ADVANCED_OPTIONS == "ADVANCED OPTIONS"
DEPRECATED_OPTIONS == "DEPRECATED OPTIONS (will be removed in a future release)"

\* The short and the long description of the list
ListDescShort == "list short description"
ListDescLong == "list long description"

\* pcmk__cluster_option_t
Option(type, values, default_value, flags, description_short, description_long) ==
    [name |-> NULL, type |-> type, values |-> values,
     default_value |-> default_value, flags |-> flags,
     description_short |-> description_short,
     description_long |-> description_long]

\* A select option with the values "on,off" and the default "on"
SelectOption ==
    Option("select", <<"on", ",", "off">>, <<"on">>, {}, "short", "long")

\* An advanced option of type string without values or default
AdvancedOption ==
    Option("string", NullString, NullString, {pcmk__opt_advanced},
           "short", "long")

OptionInputs ==
    {SelectOption,
     AdvancedOption,
     Option("string", NullString, <<"x">>, {pcmk__opt_deprecated},
            "short", NULL),
     Option("select", <<"on", ",", " ", "off">>, NullString,
            {pcmk__opt_deprecated, pcmk__opt_advanced}, NULL, "long"),
     Option("select", <<",", "on", ",", "on">>, <<"on">>,
            {pcmk__opt_generated}, "short", "long"),
     Option("integer", <<"1", ",", "2">>, <<"1">>,
            {pcmk__opt_advanced, pcmk__opt_generated}, "short", "long")}

\* The names of the options, by position in the list
OptionNames == <<"opt1", "opt2", "opt3", "opt4">>

FilterInputs ==
    SUBSET {pcmk__opt_advanced, pcmk__opt_deprecated, pcmk__opt_generated}

\* Entry of option_list_default(); nothing else in progress
InitList ==
    /\ \E len \in 1..MaxOptions :
          \E l \in [1..len -> OptionInputs] :
             option_list = [k \in 1..len |-> [l[k] EXCEPT !.name = OptionNames[k]]]
    /\ opt_filter \in FilterInputs
    /\ opt_all \in BOOLEAN
    /\ output = <<>>
    /\ deprecated = <<>>
    /\ advanced = <<>>
    /\ xpos = 1
    /\ xpc = "entry"
    /\ nodes = [n \in Nodes |-> NodeObject(TRUE, 0)]
    /\ collective = Collective([n \in Nodes |-> UsualNode])
    /\ instances = <<>>
    /\ entry = <<>>
    /\ max_total = 0
    /\ max_per_node = 0
    /\ available_nodes = 0
    /\ all_coloc = FALSE
    /\ optimal_per_node = 0
    /\ assigned = 0
    /\ iter = 1
    /\ prefer = NULL
    /\ pc = "idle"
    /\ calls = 0
    /\ created = <<>>
    /\ state = {}
    /\ pseudo = <<>>
    /\ notify = <<>>
    /\ orderings = {}
    /\ cpos = 1
    /\ cpc = "idle"
    /\ summarised = [task |-> NULL, uuid |-> <<>>, flags |-> {}]
    /\ sum_children = <<>>
    /\ sum_node = NULL
    /\ sum_flags = {}
    /\ any_runnable = FALSE
    /\ spos = 1
    /\ spc = "idle"
    /\ ord_first = [rsc |-> NULL, task |-> NULL, uuid |-> <<>>, flags |-> {}]
    /\ ord_then = [rsc |-> NULL, task |-> NULL, uuid |-> <<>>, flags |-> {}]
    /\ ord_node = NULL
    /\ ord_flags = {}
    /\ ord_type = {}
    /\ rscs = <<>>
    /\ graph = {}
    /\ changed = {}
    /\ logged = {}
    /\ added = {}
    /\ opos = 1
    /\ opc = "idle"
    /\ runs = 0

beyond_listing == <<placement, creation, summary, ordering>>
list_args == <<option_list, opt_filter, opt_all>>

\* The header of the list: lines 150-153
ListHeader ==
    /\ xpc = "entry"
    /\ output' = <<info(ListDescShort), spacer, info(ListDescLong),
                   begin_list(NULL)>>
    /\ xpc' = "options"
    /\ UNCHANGED <<beyond_listing, list_args, deprecated, advanced, xpos>>

\* The loop body with the advanced flag tested before the deprecated flag
ListOptionAdvancedFirst ==
    /\ xpc = "options"
    /\ IF xpos > Len(option_list)
       THEN /\ xpc' = "advanced"
            /\ UNCHANGED <<output, deprecated, advanced, xpos>>
       ELSE LET option == option_list[xpos] IN
            /\ xpos' = xpos + 1
            /\ UNCHANGED xpc
            /\ IF ~pcmk_all_flags_set(option.flags, opt_filter)
               THEN UNCHANGED <<output, deprecated, advanced>>
               ELSE IF pcmk_is_set(option.flags, pcmk__opt_advanced)
               THEN /\ advanced' =
                        IF show_advanced(opt_all, opt_filter)
                        THEN g_slist_prepend(advanced, option)
                        ELSE advanced
                    /\ UNCHANGED <<output, deprecated>>
               ELSE IF pcmk_is_set(option.flags, pcmk__opt_deprecated)
               THEN /\ deprecated' =
                        IF show_deprecated(opt_all, opt_filter)
                        THEN g_slist_prepend(deprecated, option)
                        ELSE deprecated
                    /\ UNCHANGED <<output, advanced>>
               ELSE /\ output' = output \o <<spacer>>
                                    \o add_option_metadata_default(option)
                    /\ UNCHANGED <<deprecated, advanced>>
    /\ UNCHANGED <<beyond_listing, list_args>>

\* One test of the loop's condition and, if it holds, the loop body
ListOption ==
    /\ xpc = "options"
    /\ IF xpos > Len(option_list)
       THEN /\ xpc' = "advanced"
            /\ UNCHANGED <<output, deprecated, advanced, xpos>>
       ELSE LET option == option_list[xpos] IN
            /\ xpos' = xpos + 1
            /\ UNCHANGED xpc
            /\ IF ~pcmk_all_flags_set(option.flags, opt_filter)
               THEN UNCHANGED <<output, deprecated, advanced>>
               ELSE IF pcmk_is_set(option.flags, pcmk__opt_deprecated)
               THEN /\ deprecated' =
                        IF show_deprecated(opt_all, opt_filter)
                        THEN g_slist_prepend(deprecated, option)
                        ELSE deprecated
                    /\ UNCHANGED <<output, advanced>>
               ELSE IF pcmk_is_set(option.flags, pcmk__opt_advanced)
               THEN /\ advanced' =
                        IF show_advanced(opt_all, opt_filter)
                        THEN g_slist_prepend(advanced, option)
                        ELSE advanced
                    /\ UNCHANGED <<output, deprecated>>
               ELSE /\ output' = output \o <<spacer>>
                                    \o add_option_metadata_default(option)
                    /\ UNCHANGED <<deprecated, advanced>>
    /\ UNCHANGED <<beyond_listing, list_args>>

\* The group of the advanced options: lines 177-190
AdvancedGroup ==
    /\ xpc = "advanced"
    /\ output' = output \o OutputGroup(advanced, ADVANCED_OPTIONS)
    /\ xpc' = "deprecated"
    /\ UNCHANGED <<beyond_listing, list_args, deprecated, advanced, xpos>>

\* The group of the deprecated options and the end of the list: lines
\* 192-211
DeprecatedGroup ==
    /\ xpc = "deprecated"
    /\ output' = output \o OutputGroup(deprecated, DEPRECATED_OPTIONS)
                        \o <<end_list>>
    /\ xpc' = "done"
    /\ UNCHANGED <<beyond_listing, list_args, deprecated, advanced, xpos>>

NextList == ListHeader \/ ListOption \/ AdvancedGroup \/ DeprecatedGroup

SpecList == InitList /\ [][NextList]_vars

(***************************************************************************)
(* Properties of the placement                                             *)
(***************************************************************************)
Done == pc = "done"
Idx == 1..Len(instances)
ProvisionalOnEntry(i) == pcmk_is_set(entry[i].flags, pe_rsc_provisional)
Provisional(i) == pcmk_is_set(instances[i].flags, pe_rsc_provisional)
\* The instances assigned to node n, and those of them this call assigned
OnNode(n) == {i \in Idx : instances[i].allocated_to = n}
PlacedOnNode(n) == {i \in OnNode(n) : ProvisionalOnEntry(i)}
Assigned == {i \in Idx : instances[i].allocated_to # NULL}
Placed == {i \in Assigned : ProvisionalOnEntry(i)}
Banned(i) ==
    \A n \in DOMAIN instances[i].allowed_nodes :
        instances[i].allowed_nodes[n] = MinusInf
AllUsual == \A n \in Nodes : /\ nodes[n] = UsualNode.node
                             /\ n \in DOMAIN collective.allowed_nodes
                             /\ collective.allowed_nodes[n].weight = 0

\* C1 as stated: after the call, whatever the instances were on entry, no
\* node has more than max_per_node instances of the collective assigned to it
C1_PerNodeCapAnyInput ==
    Done => \A n \in Nodes : Cardinality(OnNode(n)) <= max_per_node

\* C1 as amended: after the call, no node has more than max_per_node of the
\* instances that were provisional on entry (those the call itself places);
\* instances already assigned on entry are skipped and not counted
C1_PerNodeCapPlaced ==
    Done => \A n \in Nodes : Cardinality(PlacedOnNode(n)) <= max_per_node

\* A node filled to max_per_node by the call while another provisional
\* instance found no node
C1_Witness ==
    /\ Done
    /\ max_per_node >= 1
    /\ \E n \in Nodes : Cardinality(PlacedOnNode(n)) = max_per_node
    /\ \E i \in Idx : /\ Provisional(i)
                      /\ "no_node_available" \in instances[i].rsc_location

\* C2 as stated: after the call, for any input, at most max_total instances
\* of the collective are assigned to a node
C2_TotalCapAnyInput ==
    Done => Cardinality(Assigned) <= max_total

\* C2 as amended: after the call, at most max_total of the instances that
\* were provisional on entry are assigned to a node, and the call's counter
\* "assigned" is their number
C2_TotalCapPlaced ==
    Done => /\ Cardinality(Placed) <= max_total
            /\ assigned = Cardinality(Placed)

\* The call placed max_total >= 1 instances and pinned another one
C2_Witness ==
    /\ Done
    /\ max_total >= 1
    /\ Cardinality(Placed) = max_total
    /\ \E i \in Idx : "collective_limit_reached" \in instances[i].rsc_location

\* C3: when the native assign is called, every node can_run_instance()
\* rejects has score -INFINITY for the instance, and no instance is ever
\* assigned to a node whose score for it is -INFINITY
C3_NoBannedNodeChosen ==
    /\ InNative =>
        \A n \in DOMAIN instances[iter].allowed_nodes :
            ~can_run_instance(instances[iter], n, max_per_node)
                => instances[iter].allowed_nodes[n] = MinusInf
    /\ \A i \in Idx :
        instances[i].allocated_to # NULL =>
            /\ instances[i].allocated_to \in DOMAIN instances[i].allowed_nodes
            /\ instances[i].allowed_nodes[instances[i].allocated_to] # MinusInf

\* An instance the call banned from one node and assigned to another
C3_Witness ==
    /\ Done
    /\ \E i \in Placed : \E n \in DOMAIN instances[i].allowed_nodes :
        /\ entry[i].allowed_nodes[n] >= 0
        /\ instances[i].allowed_nodes[n] = MinusInf

\* C4: when the call returns, every instance that is not provisional has a
\* chosen node or an explicit -INFINITY location record
C4_AssignedOrBanned ==
    Done => \A i \in Idx :
        ~Provisional(i) =>
            \/ instances[i].allocated_to # NULL
            \/ instances[i].rsc_location # {}

\* The call returned having placed one instance, another one being not
\* provisional and without a node, but with a location record
C4_Witness ==
    /\ Done
    /\ Placed # {}
    /\ \E i \in Idx : /\ ~Provisional(i)
                      /\ instances[i].allocated_to = NULL
                      /\ instances[i].rsc_location # {}

Unplaced == {i \in Idx : ProvisionalOnEntry(i) /\ instances[i].allocated_to = NULL}

\* C5 as stated: every instance the call could not assign is, at exit,
\* provisional, without a chosen node, and has an explicit -INFINITY
\* location record
C5_UnassignedAllRecorded ==
    Done => \A i \in Unplaced :
        /\ Provisional(i)
        /\ instances[i].allocated_to = NULL
        /\ instances[i].rsc_location # {}

\* C5 as amended: every instance the call could not assign is, at exit,
\* provisional and without a chosen node; it has an explicit -INFINITY
\* location record and is banned from every node, except that an instance
\* refused for an assignment loop (allocating set, limit not reached) is
\* left exactly as it was, without any location record
C5_UnassignedRecordedUnlessLoop ==
    Done => \A i \in Unplaced :
        /\ Provisional(i)
        /\ instances[i].allocated_to = NULL
        /\ IF /\ pcmk_is_set(instances[i].flags, pe_rsc_allocating)
              /\ "collective_limit_reached" \notin instances[i].rsc_location
           THEN /\ instances[i].allowed_nodes = entry[i].allowed_nodes
                /\ instances[i].rsc_location = {}
           ELSE /\ instances[i].rsc_location # {}
                /\ Banned(i)

\* The call returned leaving one instance pinned for the limit, and one
\* refused for an assignment loop
C5_Witness ==
    /\ Done
    /\ \E i \in Unplaced : "collective_limit_reached" \in instances[i].rsc_location
    /\ \E i \in Unplaced : /\ pcmk_is_set(instances[i].flags, pe_rsc_allocating)
                           /\ instances[i].rsc_location = {}

\* max_total exceeds what the nodes can hold: plain provisional instances,
\* every node usual
OverCapacity ==
    /\ \A i \in Idx : entry[i] \in PlainInputs
    /\ AllUsual
    /\ available_nodes * max_per_node < max_total
    /\ available_nodes * max_per_node < Len(instances)

\* C6 as stated: when max_total exceeds what the nodes can hold, exactly
\* available_nodes * max_per_node instances are placed and each other one is
\* left provisional and pinned with the reason "collective limit reached"
C6_OverCapacityPinnedForLimit ==
    (Done /\ OverCapacity) =>
        /\ Cardinality(Assigned) = available_nodes * max_per_node
        /\ \A i \in Idx \ Assigned :
            /\ Provisional(i)
            /\ "collective_limit_reached" \in instances[i].rsc_location

\* C6 as amended: when max_total exceeds what the nodes can hold, exactly
\* available_nodes * max_per_node instances are placed; each other one is
\* left provisional and banned from every node because every node is full,
\* not for the collective limit: assigned stays below max_total, so the
\* "collective limit reached" record is never written
C6_OverCapacityBanned ==
    (Done /\ OverCapacity) =>
        /\ Cardinality(Assigned) = available_nodes * max_per_node
        /\ assigned < max_total
        /\ \A i \in Idx \ Assigned :
            /\ Provisional(i)
            /\ Banned(i)
            /\ "collective_limit_reached" \notin instances[i].rsc_location

\* Two nodes, max_per_node = 1, max_total = 3, three provisional instances
C6_Witness ==
    /\ Done
    /\ OverCapacity
    /\ Len(instances) = 3
    /\ max_total = 3
    /\ max_per_node = 1
    /\ Cardinality(Assigned) = 2

\* Nodes a and b, i1 active on a, i2 active on b, max_total = 2,
\* max_per_node = 1
Sticky ==
    /\ AllUsual
    /\ Len(instances) = 2
    /\ entry[1] = Instance({pe_rsc_provisional}, "a", AllZero, NULL, {})
    /\ entry[2] = Instance({pe_rsc_provisional}, "b", AllZero, NULL, {})
    /\ max_total = 2
    /\ max_per_node = 1

\* C7: whenever the early loop counts an instance as assigned, the
\* instance's chosen node is the node it is running on; and in the sticky
\* scenario both instances end on their current nodes
C7_EarlyKeepsCurrent ==
    /\ [][(pc \in {"early_assign", "early_native"} /\ assigned' > assigned)
            => /\ instances[iter].running_on # NULL
               /\ instances'[iter].allocated_to = instances[iter].running_on]_vars
    /\ []((Done /\ Sticky) =>
            /\ instances[1].allocated_to = "a"
            /\ instances[2].allocated_to = "b")

\* The sticky scenario at the end of the early loop, both instances assigned
C7_Witness ==
    /\ Sticky
    /\ pc = "early"
    /\ iter = 3
    /\ assigned = 2
    /\ instances[1].allocated_to = "a"
    /\ instances[2].allocated_to = "b"

ParentBans(n) ==
    /\ n \in DOMAIN collective.allowed_nodes
    /\ collective.allowed_nodes[n].weight = MinusInf

\* C8 as stated: if a node has score -INFINITY for the collective, then
\* after the call every instance has score -INFINITY for that node and no
\* instance is placed on it
C8_BanCascadeAnyInstance ==
    Done => \A n \in Nodes : ParentBans(n) =>
        \A i \in Idx :
            /\ n \in DOMAIN instances[i].allowed_nodes
                => instances[i].allowed_nodes[n] = MinusInf
            /\ instances[i].allocated_to # n

\* C8 as amended: if a node has score -INFINITY for the collective, then
\* after the call every instance that was provisional on entry and is not
\* flagged allocating has score -INFINITY for that node, and no instance
\* that was provisional on entry is placed on it; instances already assigned
\* on entry and instances refused for an assignment loop keep their scores
C8_BanCascadeProvisional ==
    Done => \A n \in Nodes : ParentBans(n) =>
        \A i \in Idx : ProvisionalOnEntry(i) =>
            /\ (/\ n \in DOMAIN instances[i].allowed_nodes
                /\ ~pcmk_is_set(instances[i].flags, pe_rsc_allocating))
                    => instances[i].allowed_nodes[n] = MinusInf
            /\ instances[i].allocated_to # n

\* A node banned for the collective, and an instance that had score 0 for
\* it on entry, banned from it and placed on the other node
C8_Witness ==
    /\ Done
    /\ \E n \in Nodes : /\ ParentBans(n)
                        /\ \E i \in Placed :
                            /\ entry[i].allowed_nodes[n] = 0
                            /\ instances[i].allowed_nodes[n] = MinusInf

Primitives(instance) ==
    IF instance.variant > pe_native
    THEN {instance.children[k] : k \in 1..Len(instance.children)}
    ELSE {instance}

\* The primitives of the instances checked so far
Checked == UNION {Primitives(created[k]) : k \in 1..(cpos - 1)}

Starts(p) ==
    \E k \in 1..Len(p.actions) :
        /\ p.actions[k].task = RSC_START
        /\ pe_action_optional \notin p.actions[k].flags
        /\ pe_action_runnable \in p.actions[k].flags

Stops(p) ==
    \E k \in 1..Len(p.actions) :
        /\ p.actions[k].task = RSC_STOP
        /\ pe_action_optional \notin p.actions[k].flags
        /\ p.actions[k].flags \cap {pe_action_runnable, pe_action_pseudo} # {}

\* C10: after check_instance_state() has been applied to any number of
\* instances, the restarting bit is set iff one single primitive among them
\* has a mandatory runnable start and a mandatory runnable or pseudo stop;
\* a start of one primitive and a stop of another set starting and stopping
\* only
C10_RestartingIffSamePrimitive ==
    cpc = "loop" =>
        /\ instance_restarting \in state <=>
                \E p \in Checked : Starts(p) /\ Stops(p)
        /\ ((\E p \in Checked : Starts(p)) /\ (\E p \in Checked : Stops(p)))
                => {instance_starting, instance_stopping} \subseteq state

\* One primitive starts, another one stops, none restarts
C10_Witness ==
    /\ cpc = "loop"
    /\ cpos > Len(created)
    /\ \E p \in Checked : Starts(p) /\ ~Stops(p)
    /\ \E p \in Checked : Stops(p) /\ ~Starts(p)
    /\ state \cap {instance_starting, instance_stopping, instance_restarting}
            = {instance_starting, instance_stopping}

(***************************************************************************)
(* Properties of summary_action_flags()                                    *)
(***************************************************************************)
\* The task the children are asked for
TaskS == clone_child_action(summarised)

\* The child has an action of the task that is not optional
HasMandatory(child) ==
    \E k \in 1..Len(child.actions) :
        /\ child.actions[k].task = TaskS
        /\ pe_action_optional \notin child.actions[k].flags

\* The action is one the summary may look at: of the task and, for a child
\* without members and a summary for one node, on that node
Eligible(child, k) ==
    /\ child.actions[k].task = TaskS
    /\ (child.children = <<>> /\ sum_node # NULL)
            => child.actions[k].node = sum_node

\* The first action the summary may look at is not optional
FirstIsMandatory(child) ==
    \E k \in 1..Len(child.actions) :
        /\ Eligible(child, k)
        /\ \A j \in 1..(k - 1) : ~Eligible(child, j)
        /\ pe_action_optional \notin child.actions[k].flags

SumIdx == 1..Len(sum_children)

\* C11 as stated: the summary returned lacks optional iff at least one child
\* has an action of the same task whose flags lack optional
C11_ClearedIffAnyChildAction ==
    spc = "done" =>
        (pe_action_optional \notin sum_flags
            <=> \E c \in SumIdx : HasMandatory(sum_children[c]))

\* C11 as amended: the summary returned lacks optional iff for at least one
\* child the first action of the task (on the summary's node, when a node is
\* given and the child has no members) lacks optional; whenever the summary
\* lacks optional so does the collective's own action, and the own action
\* loses optional only in the step in which the summary loses it; with no
\* children or no such child action the summary keeps optional
C11_ClearedIffFirstFoundAction ==
    /\ [](spc = "done" =>
            (pe_action_optional \notin sum_flags
                <=> \E c \in SumIdx : FirstIsMandatory(sum_children[c])))
    /\ [](spc \in {"loop", "done"} =>
            (pe_action_optional \notin sum_flags
                => pe_action_optional \notin summarised.flags))
    /\ [][(/\ pe_action_optional \in summarised.flags
           /\ pe_action_optional \notin summarised'.flags)
            => (/\ pe_action_optional \in sum_flags
                /\ pe_action_optional \notin sum_flags')]_vars

\* A summary for node a that lost optional, and with it the own action, for
\* the mandatory start of one child on a, the other child having none
C11_Witness ==
    /\ spc = "done"
    /\ sum_node = "a"
    /\ Len(sum_children) = 2
    /\ pe_action_optional \notin sum_flags
    /\ pe_action_optional \notin summarised.flags
    /\ Cardinality({c \in SumIdx : FirstIsMandatory(sum_children[c])}) = 1
    /\ Cardinality({c \in SumIdx : sum_children[c].actions = <<>>}) = 1

(***************************************************************************)
(* Properties of the ordering update                                       *)
(***************************************************************************)
FirstChildren == get_containers_or_children(rscs[ord_first.rsc])
ThenChildren == get_containers_or_children(rscs[ord_then.rsc])

\* "current" of multi_update_interleave_actions()
Current ==
    \/ pcmk__ends_with(ord_first.uuid, RSC_STOPPED)
    \/ pcmk__ends_with(ord_first.uuid, RSC_DEMOTED)

\* The interleaved loop is about to take the turn of a then-child for which
\* find_compatible_child() finds no child of first's resource, the type
\* containing runnable_left
UnmatchedTurn ==
    /\ opc = "interleave"
    /\ opos <= Len(ThenChildren)
    /\ pe_order_runnable_left \in ord_type
    /\ find_compatible_child(ThenChildren[opos], rscs[ord_first.rsc],
                             RSC_ROLE_UNKNOWN, Current) = 0

\* Assigned to no node and banned from every node
Pinned(child) ==
    /\ child.allocated_to = NULL
    /\ \A n \in DOMAIN child.allowed_nodes : child.allowed_nodes[n] = MinusInf

\* C12 as stated: whatever first's action is, the turn of an unmatched
\* then-child under a type with runnable_left pins the child to -INFINITY,
\* assigned to no node, and creates no ordering edge
C12_UnmatchedPinnedAnyFirst ==
    [][UnmatchedTurn =>
        /\ Pinned(rscs'[ord_then.rsc].children[opos])
        /\ graph' = graph]_vars

\* C12 as amended: the turn of an unmatched then-child under a type with
\* runnable_left creates no ordering edge and calls no update; the child is
\* pinned to -INFINITY and assigned to no node unless first's uuid ends in
\* _stopped_0 or _demoted_0, and then the child is left as it was
C12_UnmatchedPinnedUnlessCurrent ==
    [][UnmatchedTurn =>
        /\ graph' = graph
        /\ logged' = logged
        /\ IF Current
           THEN rscs' = rscs
           ELSE /\ Pinned(rscs'[ord_then.rsc].children[opos])
                /\ rscs'[ord_first.rsc] = rscs[ord_first.rsc]]_vars

\* A then-child assigned to node b was pinned in its turn, first being a
\* start and no child of first's resource being on b
C12_Witness ==
    /\ opc = "interleave"
    /\ runs = 1
    /\ pe_order_runnable_left \in ord_type
    /\ ord_first.task = RSC_START
    /\ \E k \in 1..(opos - 1) :
        /\ Pinned(ThenChildren[k])
        /\ pcmk__updated_then \in changed
        /\ \A e \in graph : e.then[1] # ThenChildren[k].id
    /\ \A k \in 1..Len(FirstChildren) : FirstChildren[k].allocated_to = "a"

\* The child an action of the graph belongs to
OwnerOf(children, id) ==
    CHOOSE c \in {children[k] : k \in 1..Len(children)} :
        c.id = SubSeq(id[1], 1, 2)

Interleaved == can_interleave_actions(ord_first, ord_then)

\* C13 as stated: every edge the interleaved pairing creates joins an action
\* of a then-child and an action of a child of first's resource located on
\* the node the then-child is located on
C13_EdgesOnSameNodeOnly ==
    (Interleaved /\ runs = 1) =>
        \A e \in added :
            LET then_child == OwnerOf(ThenChildren, e.then)
                first_child == OwnerOf(FirstChildren, e.first)
            IN /\ fns_location(then_child, Current) # NULL
               /\ fns_location(first_child, Current)
                    = fns_location(then_child, Current)

\* Two clones with one child each on node a, C1.start -> C2.start
InterleavePair ==
    /\ Interleaved
    /\ ord_first.task = RSC_START
    /\ ord_then.task = RSC_START
    /\ Len(FirstChildren) = 1
    /\ Len(ThenChildren) = 1
    /\ FirstChildren[1].allocated_to = "a"
    /\ ThenChildren[1].allocated_to = "a"
    /\ FirstChildren[1].actions # <<>>
    /\ ThenChildren[1].actions # <<>>
    /\ ~is_set_recursive(FirstChildren[1], pe_rsc_block)

\* C13 as amended: every edge the interleaved pairing creates joins an action
\* of a then-child and an action of a child of first's resource that is
\* not blocked and is located on the then-child's node if the then-child has
\* a location, and otherwise on one of the then-child's allowed nodes; a
\* then-child gets at most one edge; for two clones with one child each on
\* node a and C1.start -> C2.start exactly one edge is created, between the
\* two children on a
C13_EdgesPairLocatedOrAllowed ==
    (Interleaved /\ runs = 1) =>
        /\ \A e \in added :
            LET then_child == OwnerOf(ThenChildren, e.then)
                first_child == OwnerOf(FirstChildren, e.first)
            IN /\ ~is_set_recursive(first_child, pe_rsc_block)
               /\ fns_location(first_child, Current) # NULL
               /\ IF fns_location(then_child, Current) # NULL
                  THEN fns_location(first_child, Current)
                        = fns_location(then_child, Current)
                  ELSE fns_location(first_child, Current)
                        \in DOMAIN then_child.allowed_nodes
        /\ \A e1 \in added : \A e2 \in added :
                SubSeq(e1.then[1], 1, 2) = SubSeq(e2.then[1], 1, 2) => e1 = e2
        /\ (opc = "done" /\ InterleavePair) =>
                /\ Cardinality(added) = 1
                /\ \A e \in added : /\ e.first[1] = FirstChildren[1].id
                                     /\ e.then[1] = ThenChildren[1].id
                                     /\ e.first[3] = "a"
                                     /\ e.then[3] = "a"

\* The pair of clones with one more then-child on node b: one edge, between
\* the children on a
C13_Witness ==
    /\ opc = "done"
    /\ runs = 1
    /\ Interleaved
    /\ ord_first.task = RSC_START
    /\ ord_then.task = RSC_START
    /\ Len(FirstChildren) = 1
    /\ FirstChildren[1].allocated_to = "a"
    /\ Len(ThenChildren) = 2
    /\ ThenChildren[1].allocated_to = "a"
    /\ ThenChildren[2].running_on = "b"
    /\ Cardinality(added) = 1
    /\ \A e \in added : e.first[3] = "a" /\ e.then[3] = "a"

\* The resource whose meta decides
Governing ==
    IF \/ pcmk__ends_with(ord_then.uuid, RSC_STOP)
       \/ pcmk__ends_with(ord_then.uuid, RSC_DEMOTE)
    THEN ord_first.rsc ELSE ord_then.rsc

\* C14: the update takes the interleaved path iff first and then both have a
\* resource, the two resources differ, both are of variant clone or higher,
\* and meta[interleave] is true on the governing resource: first's resource
\* when then's uuid ends in _stop_0 or _demote_0, then's resource otherwise
C14_InterleaveIffEligible ==
    [][opc = "entry" =>
        ((opc' = "interleave") <=>
            /\ ord_first.rsc # NULL
            /\ ord_then.rsc # NULL
            /\ ord_first.rsc # ord_then.rsc
            /\ rscs[ord_first.rsc].variant >= pe_clone
            /\ rscs[ord_then.rsc].variant >= pe_clone
            /\ rscs[Governing].meta.interleave = "true")]_vars

\* The interleaved path taken for a stop of then, interleave being true on
\* first's resource and false on then's
C14_Witness ==
    /\ opc = "interleave"
    /\ pcmk__ends_with(ord_then.uuid, RSC_STOP)
    /\ rscs[ord_first.rsc].meta.interleave = "true"
    /\ rscs[ord_then.rsc].meta.interleave = "false"
    /\ rscs[ord_first.rsc].variant = pe_clone
    /\ rscs[ord_then.rsc].variant = pe_container

\* C17 as stated: a second call with the same first, then and type on the
\* graph the first call produced creates no ordering edge
C17_SecondRunAddsNoEdge ==
    runs = 2 => added = {}

(***************************************************************************)
(* The hash tables of the placement                                        *)
(***************************************************************************)
\* The step is the loop of reset_allowed_node_counts()
ResetStep == pc = "reset" /\ pc' = "early"

\* The step is assign_instance() running ban_unavailable_allowed_nodes()
BanStep == InAssign /\ pc' \in {"early_native", "final_native"}

\* C15: placement does not depend on the order in which the hash tables
\* are iterated: whatever the order in which reset_allowed_node_counts()
\* visits the collective's allowed nodes, the counts, the scores and the
\* locals derived from the number of available nodes are those of the step
\* taken, and whatever the order in which ban_unavailable_allowed_nodes()
\* visits the instance's allowed nodes, the instance is the one the step
\* left; every other step of the placement is a function of the state.
C15_HashOrderIndependent ==
    [][/\ ResetStep =>
            \A order \in g_hash_table_iter(DOMAIN collective.allowed_nodes) :
                LET r == reset_allowed_node_counts(collective, order) IN
                /\ collective' = r.rsc
                /\ available_nodes' = r.available_nodes
                /\ all_coloc' = (max_total < r.available_nodes)
       /\ BanStep =>
            \A order \in g_hash_table_iter(DOMAIN instances[iter].allowed_nodes) :
                instances' = [instances EXCEPT ![iter] =
                    ban_unavailable_allowed_nodes(instances[iter],
                                                  max_per_node, order)]]_vars

\* An instance with two allowed nodes has had both of them banned by the
\* loop, after a reset that visited two nodes of the collective
C15_Witness ==
    /\ InNative
    /\ Cardinality(DOMAIN collective.allowed_nodes) = 2
    /\ Cardinality(DOMAIN instances[iter].allowed_nodes) = 2
    /\ \A n \in DOMAIN instances[iter].allowed_nodes :
          /\ entry[iter].allowed_nodes[n] # MinusInf
          /\ instances[iter].allowed_nodes[n] = MinusInf

(***************************************************************************)
(* A second placement                                                      *)
(***************************************************************************)
\* C16: placement is idempotent: throughout and after a second call of
\* pcmk__assign_instances() on the instances as the first call left them,
\* every instance has the assigned node (or none) it had when the second
\* call began.
C16_SecondCallKeepsAssignments ==
    calls = 2 =>
        \A i \in 1..Len(instances) :
            instances[i].allocated_to = entry[i].allocated_to

\* The second call has returned; the first had assigned a running instance
\* to a node and had left another over the collective limit
C16_Witness ==
    /\ calls = 2
    /\ pc = "done"
    /\ \E i \in 1..Len(entry) :
          /\ entry[i].running_on # NULL
          /\ entry[i].allocated_to # NULL
          /\ ~pcmk_is_set(entry[i].flags, pe_rsc_provisional)
    /\ \E j \in 1..Len(entry) :
          /\ "collective_limit_reached" \in entry[j].rsc_location
          /\ entry[j].running_on # NULL

(***************************************************************************)
(* Properties of the option list                                           *)
(***************************************************************************)
\* The options [opt1: select, values "on,off", default "on"; opt2: advanced,
\* string], all = false, filter = 0
GoldenInput ==
    /\ option_list = <<[SelectOption EXCEPT !.name = "opt1"],
                       [AdvancedOption EXCEPT !.name = "opt2"]>>
    /\ ~opt_all
    /\ opt_filter = {}

\* The text "on" (default), "off"
GoldenValues ==
    <<"\"", "on", "\"", " (default)", ", ", "\"", "off", "\"">>

Header(title) == begin_list(title)

\* C18 as stated: for the golden input the output holds opt1, then the
\* possible values "on" (default), "off", then the header ADVANCED OPTIONS
\* followed by opt2, and no header DEPRECATED OPTIONS.
C18_GoldenShowsAdvanced ==
    (xpc = "done" /\ GoldenInput) =>
        /\ \E i, j, k, m \in 1..Len(output) :
              /\ i < j /\ j < k /\ k < m
              /\ output[i].call = "list_item" /\ output[i].id = "opt1"
              /\ output[j] = list_item("Possible values", GoldenValues)
              /\ output[k] = Header(ADVANCED_OPTIONS)
              /\ output[m].call = "list_item" /\ output[m].id = "opt2"
        /\ \A i \in 1..Len(output) : output[i] # Header(DEPRECATED_OPTIONS)

\* C18: for the golden input the output is the header of the list, then
\* opt1 with its descriptions and the possible values "on" (default), "off",
\* then the end of the list: opt2 and the header ADVANCED OPTIONS are not
\* in it (all is false and the filter lacks the advanced flag), and no
\* header DEPRECATED OPTIONS either.
C18_GoldenOmitsAdvanced ==
    (xpc = "done" /\ GoldenInput) =>
        output = <<info(ListDescShort), spacer, info(ListDescLong),
                   begin_list(NULL),
                   spacer,
                   list_item("opt1", <<"short">>),
                   begin_list(NULL),
                   list_item(NULL, <<"long">>),
                   list_item("Possible values", GoldenValues),
                   end_list,
                   end_list>>

\* option_list_default() has returned for the golden input
C18_Witness ==
    /\ xpc = "done"
    /\ GoldenInput
    /\ \E i \in 1..Len(output) : output[i].id = "opt1"

\* The option's name is the id of an item of the output
Emitted(option) ==
    \E i \in 1..Len(output) :
        output[i].call = "list_item" /\ output[i].id = option.name

\* The title heads a list of the output
HeaderEmitted(title) == \E i \in 1..Len(output) : output[i] = Header(title)

\* The options of the two groups: a deprecated option is of the deprecated
\* group whatever its other flags
InDeprecatedGroup(option) == pcmk__opt_deprecated \in option.flags
InAdvancedGroup(option) ==
    pcmk__opt_advanced \in option.flags /\ ~InDeprecatedGroup(option)

\* C19: unless all is true or the filter contains the advanced flag, the
\* output holds neither the header ADVANCED OPTIONS nor any option of the
\* advanced group; unless all is true or the filter contains the deprecated
\* flag, it holds neither the header DEPRECATED OPTIONS nor any deprecated
\* option.
C19_GroupOnlyIfAllOrFiltered ==
    /\ ~(opt_all \/ pcmk__opt_advanced \in opt_filter) =>
          /\ ~HeaderEmitted(ADVANCED_OPTIONS)
          /\ \A k \in 1..Len(option_list) :
                InAdvancedGroup(option_list[k]) => ~Emitted(option_list[k])
    /\ ~(opt_all \/ pcmk__opt_deprecated \in opt_filter) =>
          /\ ~HeaderEmitted(DEPRECATED_OPTIONS)
          /\ \A k \in 1..Len(option_list) :
                InDeprecatedGroup(option_list[k]) => ~Emitted(option_list[k])

\* option_list_default() has returned, having been given an advanced and a
\* deprecated option that pass the filter, with all false and neither flag
\* in the filter
C19_Witness ==
    /\ xpc = "done"
    /\ ~opt_all
    /\ pcmk__opt_advanced \notin opt_filter
    /\ pcmk__opt_deprecated \notin opt_filter
    /\ \E k \in 1..Len(option_list) :
          /\ InAdvancedGroup(option_list[k])
          /\ pcmk_all_flags_set(option_list[k].flags, opt_filter)
    /\ \E k \in 1..Len(option_list) :
          /\ InDeprecatedGroup(option_list[k])
          /\ pcmk_all_flags_set(option_list[k].flags, opt_filter)

(***************************************************************************)
(* The final pass of the placement                                         *)
(***************************************************************************)
InFinalPass == pc \in {"final", "final_assign", "final_native"}

\* The final loop is at a provisional instance with the limit reached
OverLimitTurn ==
    /\ pc = "final"
    /\ iter <= Len(instances)
    /\ pcmk_is_set(instances[iter].flags, pe_rsc_provisional)
    /\ assigned >= max_total

\* C20: the final pass visits the instances in the supplied order (a step
\* of it changes no instance but the one at the position of the loop, and
\* leaves the position or moves it to the next), and once assigned >=
\* max_total every provisional instance it visits is given the location
\* "collective_limit_reached" at -INFINITY on every allowed node and stays
\* unassigned, assign_instance() not being called for it: the position
\* moves on at once and the count stays, and the native assign never runs
\* with the limit reached.
C20_FinalPassInOrderAndLimited ==
    /\ [][(InFinalPass /\ pc' # "reset") =>
            /\ iter' \in {iter, iter + 1}
            /\ Len(instances') = Len(instances)
            /\ \A i \in 1..Len(instances) :
                  i # iter => instances'[i] = instances[i]]_vars
    /\ [][OverLimitTurn =>
            /\ pc' = "final"
            /\ iter' = iter + 1
            /\ assigned' = assigned
            /\ instances'[iter].allocated_to = NULL
            /\ "collective_limit_reached" \in instances'[iter].rsc_location
            /\ \A n \in DOMAIN instances'[iter].allowed_nodes :
                  instances'[iter].allowed_nodes[n] = MinusInf]_vars
    /\ [](pc \in {"final_assign", "final_native"} => assigned < max_total)

\* The final loop has just passed an instance left over the limit, after
\* instances have been assigned
C20_Witness ==
    /\ pc = "final"
    /\ iter > 1
    /\ max_total > 0
    /\ assigned >= max_total
    /\ "collective_limit_reached" \in instances[iter - 1].rsc_location
    /\ pcmk_is_set(instances[iter - 1].flags, pe_rsc_provisional)
    /\ \A n \in DOMAIN entry[iter - 1].allowed_nodes :
          entry[iter - 1].allowed_nodes[n] # MinusInf

(***************************************************************************)
(* The colocations of the parent                                           *)
(***************************************************************************)
\* The instance holds colocations copied from its parent (the inputs hold
\* none, and the parent has one that every copy takes)
Copied(instance) == instance.this_with # <<>> /\ instance.with_this # <<>>

\* C21 as stated: every instance of the list has had its parent's
\* colocations copied onto it by the time the final loop runs, whatever
\* max_total is and however many instances were assigned early.
C21_AllCopiedBeforeFinal ==
    InFinalPass => \A i \in 1..Len(instances) : Copied(instances[i])

\* C21: every instance for which the final loop calls assign_instance()
\* has had its parent's colocations copied onto it; an instance the early
\* loop did not reach, having stopped at assigned >= max_total (at once
\* when max_total is 0), has none, and the final loop, the limit being
\* reached, does not assign it.
C21_CopiedBeforeFinalAssign ==
    /\ pc \in {"final_assign", "final_native"} => Copied(instances[iter])
    /\ InFinalPass =>
          \A i \in 1..Len(instances) :
              ~Copied(instances[i]) => assigned >= max_total

\* The final loop calls assign_instance() for an instance after others
\* were assigned early
C21_Witness ==
    /\ pc = "final_assign"
    /\ assigned > 0
    /\ Copied(instances[iter])
    /\ \E i \in 1..Len(instances) :
          i < iter /\ instances[i].allocated_to # NULL
                   /\ pcmk_is_set(entry[i].flags, pe_rsc_provisional)

\* The step is the body of the early loop
EarlyBody == pc = "early" /\ iter <= Len(instances) /\ assigned < max_total

\* The filter of the colocations of rsc_cons
ThisWithKept(cons) == all_coloc \/ cons.score < 0 \/ cons.score = INFINITY

\* The filter of rsc_cons_lhs as stated: influence and the same scores
WithThisStated(cons) ==
    /\ pcmk__colocation_has_influence(cons, instances[iter])
    /\ (all_coloc \/ cons.score < 0 \/ cons.score = INFINITY)

\* The filter of rsc_cons_lhs: influence, and a negative score unless all
WithThisKept(cons) ==
    /\ pcmk__colocation_has_influence(cons, instances[iter])
    /\ (all_coloc \/ cons.score < 0)

\* C22 as stated: the body of the early loop appends to the child the
\* edges of rsc_cons with score < 0 or +INFINITY (all with all_coloc), and
\* the edges of rsc_cons_lhs with influence that pass the same filter.
C22_LhsSameFilter ==
    [][EarlyBody =>
        /\ instances'[iter].this_with =
                instances[iter].this_with
                    \o SelectSeq(collective.rsc_cons, ThisWithKept)
        /\ instances'[iter].with_this =
                instances[iter].with_this
                    \o SelectSeq(collective.rsc_cons_lhs, WithThisStated)]_vars

\* C22: the body of the early loop appends to the child, in the parent's
\* order, the edges of rsc_cons with score < 0 or +INFINITY (all of them
\* with all_coloc), and the edges of rsc_cons_lhs that have influence on
\* the child and score < 0 (all those with influence with all_coloc): an
\* edge of rsc_cons_lhs with score +INFINITY is not copied without
\* all_coloc. all_coloc is max_total < available_nodes.
C22_LhsNegativeOnly ==
    /\ [][EarlyBody =>
            /\ instances'[iter].this_with =
                    instances[iter].this_with
                        \o SelectSeq(collective.rsc_cons, ThisWithKept)
            /\ instances'[iter].with_this =
                    instances[iter].with_this
                        \o SelectSeq(collective.rsc_cons_lhs, WithThisKept)]_vars
    /\ [](pc # "reset" => all_coloc = (max_total < available_nodes))

\* Without all_coloc, an instance with a current node holds the infinite
\* colocation of rsc_cons and, of rsc_cons_lhs, the negative one with
\* influence only
C22_Witness ==
    /\ ~all_coloc
    /\ pc \in {"early", "early_assign"}
    /\ \E i \in 1..Len(instances) :
          /\ instances[i].running_on # NULL
          /\ instances[i].this_with = <<ParentCons[1], ParentCons[3]>>
          /\ instances[i].with_this = <<ParentConsLhs[1]>>

(***************************************************************************)
(* The preferred node                                                      *)
(***************************************************************************)
\* The instance at the position of the loop is active, provisional and not
\* failed, and its current node is available under the strict check
KeepsCurrent ==
    /\ instances[iter].running_on # NULL
    /\ pcmk_is_set(instances[iter].flags, pe_rsc_provisional)
    /\ ~pcmk_is_set(instances[iter].flags, pe_rsc_failed)
    /\ pcmk__node_available(instances[iter].running_on,
                            nodes[instances[iter].running_on].weight, TRUE)

\* The current node has a top-allowed entry
HasTopEntry == instances[iter].running_on \in DOMAIN collective.allowed_nodes

BelowOptimal ==
    collective.allowed_nodes[instances[iter].running_on].count
        < optimal_per_node

\* The node the early loop got from preferred_node() in this step
Preferred == IF pc' = "early_assign" THEN prefer' ELSE NULL

\* C23 as stated: preferred_node() returns the current node iff the
\* instance is active, provisional, not failed, the node is available
\* (strict) and its top-allowed count is below optimal_per_node, and no
\* node otherwise, a current node without top-allowed entry included.
C23_NoTopEntryNoNode ==
    [][EarlyBody =>
        /\ Preferred \in {NULL, instances[iter].running_on}
        /\ Preferred # NULL <=>
                (KeepsCurrent /\ HasTopEntry /\ BelowOptimal)]_vars

\* C23: preferred_node() returns the current node iff the instance is
\* active, provisional, not failed, the node is available (strict) and
\* either it has no top-allowed entry or its top-allowed count is below
\* optimal_per_node, and no node otherwise; optimal_per_node is
\* max(1, max_total / available_nodes), 1 when no node is available.
C23_NoTopEntryCurrentNode ==
    /\ [][EarlyBody =>
            /\ Preferred \in {NULL, instances[iter].running_on}
            /\ Preferred # NULL <=>
                    (KeepsCurrent /\ (HasTopEntry => BelowOptimal))]_vars
    /\ [](pc # "reset" =>
            optimal_per_node =
                IF available_nodes = 0 THEN 1
                ELSE IF max_total \div available_nodes < 1 THEN 1
                ELSE max_total \div available_nodes)

\* preferred_node() has returned a current node that the parent does not
\* allow
C23_Witness ==
    /\ pc = "early_assign"
    /\ prefer # NULL
    /\ prefer = instances[iter].running_on
    /\ prefer \notin DOMAIN collective.allowed_nodes

(***************************************************************************)
(* The failures of assign_instance()                                       *)
(***************************************************************************)
\* assign_instance() returns failure in this step, having changed nothing:
\* the loop that called it goes on with the next instance, the count of
\* the assigned instances as it was
ReturnsFailureUnchanged ==
    /\ pc' = Caller
    /\ iter' = iter + 1
    /\ assigned' = assigned
    /\ instances' = instances
    /\ collective' = collective

\* assign_instance() is entered for a provisional instance being assigned
LoopTurn ==
    /\ InAssign
    /\ pcmk_is_set(instances[iter].flags, pe_rsc_provisional)
    /\ pcmk_is_set(instances[iter].flags, pe_rsc_allocating)

\* C24: for a provisional instance with the allocating flag,
\* assign_instance() returns failure without calling the native assign
\* and without changing any state: no score, no count, no flag changes, and
\* pcmk__assign_instances() goes on with the next instance.
C24_AllocatingFailsUnchanged ==
    /\ [][LoopTurn => ReturnsFailureUnchanged]_vars
    /\ [](InNative => ~pcmk_is_set(instances[iter].flags, pe_rsc_allocating))

\* The final loop has gone past an instance with the allocating flag, for
\* which assign_instance() was called: it is as it was on entry but for
\* the colocations copied
C24_Witness ==
    /\ pc = "final"
    /\ iter > 1
    /\ assigned < max_total
    /\ pcmk_is_set(instances[iter - 1].flags, pe_rsc_allocating)
    /\ pcmk_is_set(instances[iter - 1].flags, pe_rsc_provisional)
    /\ instances[iter - 1].allowed_nodes = entry[iter - 1].allowed_nodes
    /\ instances[iter - 1].allocated_to = NULL

\* assign_instance() is entered with a preferred node that the instance
\* does not allow or has a negative score for
UnavailableTurn ==
    /\ InAssign
    /\ pcmk_is_set(instances[iter].flags, pe_rsc_provisional)
    /\ ~pcmk_is_set(instances[iter].flags, pe_rsc_allocating)
    /\ prefer # NULL
    /\ \/ prefer \notin DOMAIN instances[iter].allowed_nodes
       \/ instances[iter].allowed_nodes[prefer] < 0

\* C25: called with a preferred node that is absent from the instance's
\* allowed_nodes or has a negative score there, assign_instance() returns
\* failure and leaves the instance as it was: provisional, no node newly
\* banned, no top-allowed count changed.
C25_UnavailablePreferFailsUnchanged ==
    [][UnavailableTurn => ReturnsFailureUnchanged]_vars

\* The early loop has gone past an instance whose current node has a
\* negative score in its allowed_nodes, its scores as on entry
C25_Witness ==
    /\ pc = "early"
    /\ iter > 1
    /\ instances[iter - 1].running_on \in DOMAIN instances[iter - 1].allowed_nodes
    /\ entry[iter - 1].allowed_nodes[instances[iter - 1].running_on] < 0
    /\ entry[iter - 1].flags = {pe_rsc_provisional}
    /\ nodes[instances[iter - 1].running_on].online
    /\ nodes[instances[iter - 1].running_on].weight >= 0
    /\ instances[iter - 1].allowed_nodes = entry[iter - 1].allowed_nodes
    /\ pcmk_is_set(instances[iter - 1].flags, pe_rsc_provisional)

(***************************************************************************)
(* The bans of ban_unavailable_allowed_nodes()                             *)
(***************************************************************************)
\* One of the five reasons holds for the instance at the position of the
\* loop and the node
Unavailable(n) ==
    \/ pcmk_is_set(instances[iter].flags, pe_rsc_orphan)
    \/ ~pcmk__node_available(n, instances[iter].allowed_nodes[n], FALSE)
    \/ n \notin DOMAIN collective.allowed_nodes
    \/ collective.allowed_nodes[n].weight < 0
    \/ collective.allowed_nodes[n].count >= max_per_node

\* C26: ban_unavailable_allowed_nodes() sets the score of an allowed node
\* to -INFINITY iff the instance is an orphan, the node is unavailable, the
\* node has no top-allowed mapping, its top-allowed weight is negative or
\* its top-allowed count is at least max_per_node; it leaves the score of
\* every other allowed node, the set of allowed nodes and the rest of the
\* instance as they were.
C26_BannedIffUnavailable ==
    [][BanStep =>
        /\ DOMAIN instances'[iter].allowed_nodes
                = DOMAIN instances[iter].allowed_nodes
        /\ \A n \in DOMAIN instances[iter].allowed_nodes :
              instances'[iter].allowed_nodes[n] =
                  IF Unavailable(n) THEN MinusInf
                  ELSE instances[iter].allowed_nodes[n]
        /\ instances' = [instances EXCEPT ![iter].allowed_nodes =
                            instances'[iter].allowed_nodes]]_vars

\* The loop has banned one allowed node for the parent's negative score
\* there and has left the other at its score
C26_Witness ==
    /\ InNative
    /\ ~pcmk_is_set(instances[iter].flags, pe_rsc_orphan)
    /\ \E n, m \in DOMAIN instances[iter].allowed_nodes :
          /\ n \in DOMAIN collective.allowed_nodes
          /\ collective.allowed_nodes[n].weight < 0
          /\ collective.allowed_nodes[n].count < max_per_node
          /\ nodes[n].online
          /\ entry[iter].allowed_nodes[n] >= 0
          /\ instances[iter].allowed_nodes[n] = MinusInf
          /\ m # n
          /\ instances[iter].allowed_nodes[m] = entry[iter].allowed_nodes[m]
          /\ instances[iter].allowed_nodes[m] >= 0

(***************************************************************************)
(* The rollback of an early assignment                                     *)
(***************************************************************************)
\* The step is the native assign of an early assignment choosing a node
\* other than the preferred one
RollbackStep ==
    /\ pc = "early_native"
    /\ NativeChoice(instances[iter], prefer) \notin {NULL, prefer}

\* C27: when an early assignment is rolled back, the native assign having
\* chosen a node other than the preferred one, every score of the
\* instance's allowed_nodes is what it was on entry to assign_instance(),
\* before ban_unavailable_allowed_nodes(); the instance is unassigned and
\* provisional, no top-allowed count has changed and failure is returned.
C27_RollbackRestoresEntryScores ==
    [][RollbackStep =>
        /\ instances'[iter].allowed_nodes = entry[iter].allowed_nodes
        /\ instances'[iter].allocated_to = NULL
        /\ pcmk_is_set(instances'[iter].flags, pe_rsc_provisional)
        /\ collective' = collective
        /\ assigned' = assigned
        /\ pc' = "early"]_vars

(***************************************************************************)
(* The state of the instances and the pseudo-actions of the collective     *)
(***************************************************************************)
Active(p) == p.running_on # NULL

\* The fold of check_instance_state() without any short-circuit: the bits
\* of every primitive checked so far
FullState ==
    {b \in instance_all :
        \E p \in Checked :
            \/ b = instance_active /\ Active(p)
            \/ b = instance_starting /\ Starts(p)
            \/ b = instance_stopping /\ Stops(p)
            \/ b = instance_restarting /\ Starts(p) /\ Stops(p)}

\* C28: after check_instance_state() has been folded over any number of
\* instances, through the members of the groups and with its short
\* circuits, the state has active iff some primitive among them has a
\* current node, starting iff some primitive has a start that is not
\* optional and is runnable, stopping iff some primitive has a stop that is
\* not optional and is runnable or pseudo; the state is that of the fold
\* without short circuits.
C28_StateIsFullFold ==
    cpc \in {"loop", "done"} =>
        /\ instance_active \in state <=> \E p \in Checked : Active(p)
        /\ instance_starting \in state <=> \E p \in Checked : Starts(p)
        /\ instance_stopping \in state <=> \E p \in Checked : Stops(p)
        /\ state = FullState

\* The first instance has set all four bits, so that the check of the
\* second, which starts, has returned at once
C28_Witness ==
    /\ cpc = "loop"
    /\ cpos = 3
    /\ check_instance_state(created[1], {}) = instance_all
    /\ \E p \in Primitives(created[2]) : Starts(p)
    /\ state = instance_all

\* C29: the collective's start and started are both optional iff no
\* instance is starting; start is runnable; started is runnable iff some
\* instance is active or starting.
C29_StartOptionalStartedRunnable ==
    cpc = "done" =>
        /\ pe_action_optional \in pseudo.start.flags
                <=> ~\E p \in Checked : Starts(p)
        /\ pe_action_optional \in pseudo.started.flags
                <=> ~\E p \in Checked : Starts(p)
        /\ pe_action_runnable \in pseudo.start.flags
        /\ pe_action_runnable \in pseudo.started.flags
                <=> \E p \in Checked : Active(p) \/ Starts(p)
        /\ pseudo.start.task = RSC_START
        /\ pseudo.started.task = RSC_STARTED

\* An instance is active and none is starting: start and started are
\* optional and started is runnable
C29_Witness ==
    /\ cpc = "done"
    /\ \E p \in Checked : Active(p)
    /\ ~\E p \in Checked : Starts(p)
    /\ pe_action_optional \in pseudo.start.flags
    /\ pe_action_optional \in pseudo.started.flags
    /\ pe_action_runnable \in pseudo.started.flags

\* C30: the collective's stop and stopped are both optional iff no instance
\* is stopping; stop is migrate-runnable iff no single instance is
\* restarting, so that with one instance starting and another stopping it
\* is migrate-runnable.
C30_StopOptionalMigrateRunnable ==
    cpc = "done" =>
        /\ pe_action_optional \in pseudo.stop.flags
                <=> ~\E p \in Checked : Stops(p)
        /\ pe_action_optional \in pseudo.stopped.flags
                <=> ~\E p \in Checked : Stops(p)
        /\ pe_action_migrate_runnable \in pseudo.stop.flags
                <=> ~\E p \in Checked : Starts(p) /\ Stops(p)
        /\ pseudo.stop.task = RSC_STOP
        /\ pseudo.stopped.task = RSC_STOPPED

\* One instance starts, another stops, none restarts: stop is not optional
\* and is migrate-runnable
C30_Witness ==
    /\ cpc = "done"
    /\ \E p \in Checked : Starts(p)
    /\ \E p \in Checked : Stops(p)
    /\ ~\E p \in Checked : Starts(p) /\ Stops(p)
    /\ pe_action_optional \notin pseudo.stop.flags
    /\ pe_action_migrate_runnable \in pseudo.stop.flags

(***************************************************************************)
(* The notifications of the collective                                     *)
(***************************************************************************)
BothHooks == notify.start_arg # "no_hook" /\ notify.stop_arg # "no_hook"

\* The optional ordering stop_notify.post_done -> start_notify.pre
NotifyOrdering ==
    [first |-> <<notify.stop_notify, "post_done">>,
     then |-> <<notify.start_notify, "pre">>,
     type |-> "optional"]

\* C31 as stated: whenever the caller gives both hooks, after the call both
\* notification sets exist and the optional ordering is there, whether the
\* data was made in this call or was there on entry.
C31_BothHooksOrdered ==
    (cpc = "done" /\ BothHooks) =>
        /\ notify.start_notify # NULL
        /\ notify.stop_notify # NULL
        /\ NotifyOrdering \in orderings

\* C31: after the call, data that a hook led to on entry is still what it
\* leads to, and the call has added the optional ordering
\* stop_notify.post_done -> start_notify.pre iff the stop hook was given and
\* led to no data on entry, the start hook was given, and both hooks lead
\* to data now (the builder returns none for a collective without
\* notifications); with stop data there on entry it adds no ordering.
C31_OrderedIffStopCreated ==
    cpc = "done" =>
        /\ notify.start_arg = "old_data" => notify.start_notify = "old_data"
        /\ notify.stop_arg = "old_data" => notify.stop_notify = "old_data"
        /\ orderings =
              IF /\ BothHooks
                 /\ notify.stop_arg = NULL
                 /\ notify.start_notify # NULL
                 /\ notify.stop_notify # NULL
              THEN {NotifyOrdering} ELSE {}

\* Both hooks were given, the start data was there on entry and the stop
\* data was made in this call: the ordering is there
C31_Witness ==
    /\ cpc = "done"
    /\ notify.start_arg = "old_data"
    /\ notify.stop_arg = NULL
    /\ notify.stop_notify # NULL
    /\ orderings = {NotifyOrdering}

\* The child of first's resource paired with the then-child of this turn, 0
\* if there is none
PairedChild ==
    find_compatible_child(ThenChildren[opos], rscs[ord_first.rsc],
                          RSC_ROLE_UNKNOWN, Current)

\* The actions looked up in the first-child and in the then-child of a turn
FirstLookup(first_child) ==
    find_first_action(IF /\ Contained(first_child)
                         /\ ord_first.task \in {RSC_STOP, RSC_STOPPED}
                      THEN first_child.contained ELSE first_child.actions,
                      1, clone_child_action(ord_first), ord_node)
ThenLookup(then_child) ==
    find_first_action(IF /\ Contained(then_child)
                         /\ ord_then.task \in {RSC_PROMOTE, RSC_PROMOTED,
                                               RSC_DEMOTE, RSC_DEMOTED}
                      THEN then_child.contained ELSE then_child.actions,
                      1, ord_then.task, ord_node)

\* The turn of a then-child that has a compatible first-child, the action of
\* one of the two not being found
MissingActionTurn ==
    /\ opc = "interleave"
    /\ opos <= Len(ThenChildren)
    /\ PairedChild # 0
    /\ \/ FirstLookup(FirstChildren[PairedChild]) = 0
       \/ ThenLookup(ThenChildren[opos]) = 0

\* The child and the task of the lookup that failed, first's before then's
MissingOwner ==
    IF FirstLookup(FirstChildren[PairedChild]) = 0
    THEN FirstChildren[PairedChild] ELSE ThenChildren[opos]
MissingTask ==
    IF FirstLookup(FirstChildren[PairedChild]) = 0
    THEN clone_child_action(ord_first) ELSE ord_then.task

\* C32: in the interleaved pairing, when the first-child action or the
\* then-child action is not found the pair is skipped: no ordering edge is
\* added, update_ordered_actions is not called, no flag changes; an internal
\* error is reported iff the child is not orphan and the task is neither stop
\* nor demote; the loop goes on with the next child
C32_MissingActionSkipsPair ==
    [][MissingActionTurn =>
        /\ graph' = graph
        /\ added' = added
        /\ rscs' = rscs
        /\ changed' = changed
        /\ {l \in logged' : l.call = "update_ordered_actions"}
             = {l \in logged : l.call = "update_ordered_actions"}
        /\ (LoggedError(MissingOwner.id, MissingTask) \in logged')
             <=> \/ LoggedError(MissingOwner.id, MissingTask) \in logged
                 \/ /\ ~pcmk_is_set(MissingOwner.flags, pe_rsc_orphan)
                    /\ MissingTask \notin {RSC_STOP, RSC_DEMOTE}
        /\ logged' \subseteq
                logged \cup {LoggedError(MissingOwner.id, MissingTask)}
        /\ opc' = "interleave"
        /\ opos' = opos + 1]_vars

\* The first then-child was skipped with an internal error, its action
\* missing, and the second then-child was paired and ordered after it
C32_Witness ==
    /\ opc = "done"
    /\ runs = 1
    /\ Interleaved
    /\ Len(ThenChildren) = 2
    /\ ThenChildren[1].actions = <<>>
    /\ LoggedError(ThenChildren[1].id, ord_then.task) \in logged
    /\ \A e \in added : e.then[1] # ThenChildren[1].id
    /\ \E e \in added : e.then[1] = ThenChildren[2].id

\* A child of the peer that is not blocked, is located on n and has the role
\* of the filter when the filter is not UNKNOWN
MatchesOn(child, n, filter, current) ==
    /\ ~is_set_recursive(child, pe_rsc_block)
    /\ fns_location(child, current) = n
    /\ filter # RSC_ROLE_UNKNOWN => fns_state(child, current) = filter

\* The first child of the peer, in child order, that matches on n; 0 if
\* there is none
FirstMatchOn(peer, n, filter, current) ==
    LET children == get_containers_or_children(peer)
        ok == {k \in 1..Len(children) :
                    MatchesOn(children[k], n, filter, current)}
    IN IF ok = {} THEN 0 ELSE CHOOSE k \in ok : \A j \in ok : k <= j

\* The roles a filter may name
FilterRoles == {RSC_ROLE_UNKNOWN, RSC_ROLE_STARTED, RSC_ROLE_STOPPED}

\* C33: find_compatible_child(local_child, peer, filter, current) returns, if
\* local_child has a location n, the first child of peer in child order that
\* is not blocked, is located on n and has role = filter when filter is not
\* UNKNOWN, or null if there is none, with no fallback to other nodes; if
\* local_child has no location, the first match on the first of its allowed
\* nodes, in sorted order (higher score first), that has a match, or null
C33_FirstMatchOnLocationOrSortedAllowed ==
    (Interleaved /\ opc \in {"interleave", "done"}) =>
        \A k \in 1..Len(ThenChildren) :
        \A filter \in FilterRoles :
        \A current \in BOOLEAN :
            LET local_child == ThenChildren[k]
                peer == rscs[ord_first.rsc]
                n == fns_location(local_child, current)
                sorted == pcmk__sort_nodes(local_child.allowed_nodes)
                matching == {i \in 1..Len(sorted) :
                    FirstMatchOn(peer, sorted[i], filter, current) # 0}
                found == find_compatible_child(local_child, peer, filter,
                                               current)
            IN IF n # NULL
               THEN found = FirstMatchOn(peer, n, filter, current)
               ELSE IF matching = {} THEN found = 0
               ELSE LET i == CHOOSE i \in matching : \A j \in matching : i <= j
                    IN /\ found = FirstMatchOn(peer, sorted[i], filter,
                                               current)
                       /\ \A j \in matching :
                            local_child.allowed_nodes[sorted[i]]
                                >= local_child.allowed_nodes[sorted[j]]

\* A then-child assigned to no node that allows b at a higher score than a
\* was paired with the second child of first's resource, the one on b, the
\* first child being on a and not blocked
C33_Witness ==
    /\ opc = "done"
    /\ runs = 1
    /\ Interleaved
    /\ ~Current
    /\ Len(FirstChildren) = 2
    /\ FirstChildren[1].allocated_to = "a"
    /\ ~is_set_recursive(FirstChildren[1], pe_rsc_block)
    /\ FirstChildren[2].allocated_to = "b"
    /\ \E k \in 1..Len(ThenChildren) :
        /\ ThenChildren[k].allocated_to = NULL
        /\ ThenChildren[k].allowed_nodes["b"]
                > ThenChildren[k].allowed_nodes["a"]
        /\ \E e \in added : /\ e.then[1] = ThenChildren[k].id
                             /\ e.first[1] = FirstChildren[2].id

\* The child has a runnable action of the task
HasRunnable(child) ==
    \E k \in 1..Len(child.actions) :
        /\ child.actions[k].task = TaskS
        /\ pe_action_runnable \in child.actions[k].flags

\* The first action the summary may look at is runnable
FirstIsRunnable(child) ==
    \E k \in 1..Len(child.actions) :
        /\ Eligible(child, k)
        /\ \A j \in 1..(k - 1) : ~Eligible(child, j)
        /\ pe_action_runnable \in child.actions[k].flags

\* The collective's own action is runnable
OwnRunnable == pe_action_runnable \in summarised.flags

\* C34 as stated: the summary returned lacks runnable iff no child has a
\* runnable action of the same task
C34_RunnableClearedIffNoChildAction ==
    spc = "done" =>
        (pe_action_runnable \notin sum_flags
            <=> ~\E c \in SumIdx : HasRunnable(sum_children[c]))

\* C34 as amended: the summary always has pseudo; the summary returned lacks
\* runnable iff for no child the first action of the task (on the summary's
\* node, when a node is given and the child has no members) is runnable; at
\* the return runnable is cleared on the collective's own action iff that is
\* so and the node is unspecified, and otherwise the own action is returned
\* as it was; the loop never changes the own action's runnable flag, and
\* with a node given no step does
C34_RunnableClearedIffNoFirstFound ==
    /\ [](spc \in {"loop", "done"} => pe_action_pseudo \in sum_flags)
    /\ [](spc = "done" =>
            (pe_action_runnable \notin sum_flags
                <=> ~\E c \in SumIdx : FirstIsRunnable(sum_children[c])))
    /\ [][(spc = "loop" /\ spc' = "done") =>
            IF /\ ~\E c \in SumIdx : FirstIsRunnable(sum_children[c])
               /\ sum_node = NULL
            THEN ~OwnRunnable'
            ELSE summarised' = summarised]_vars
    /\ [][spc' = "loop" => (OwnRunnable' <=> OwnRunnable)]_vars
    /\ [][sum_node # NULL => (OwnRunnable' <=> OwnRunnable)]_vars

\* A summary for node a returned without runnable, the only runnable start
\* of a child being on b, and the own action still runnable
C34_Witness ==
    /\ spc = "done"
    /\ sum_node = "a"
    /\ TaskS = RSC_START
    /\ Len(sum_children) = 1
    /\ HasRunnable(sum_children[1])
    /\ ~FirstIsRunnable(sum_children[1])
    /\ pe_action_runnable \notin sum_flags
    /\ pe_action_pseudo \in sum_flags
    /\ OwnRunnable

\* The action of then's task found in the then-child of this turn of the
\* non-interleaved loop, 0 if there is none
ChildLookup ==
    find_first_action(ThenChildren[opos].actions, 1, ord_then.task, ord_node)

\* The calls of one kind in a log
CallsOf(log, kind) == {l \in log : l.call = kind}

\* The identities of first and then in the call of the primitive update
OwnId(action) == <<<<action.rsc>>, action.task, NULL>>

\* C35: in the non-interleaved path the primitive update is applied to
\* (first, then) first; then, for each child of then's resource,
\* update_ordered_actions is applied to the child's action of then's task
\* iff that action exists and is runnable, and ordering propagation is re-run
\* on every outgoing edge of the child's action iff the child's update
\* reported then as updated
C35_PrimitiveThenRunnableChildren ==
    /\ [][opc = "entry" /\ opc' = "primitive" => logged' = {}]_vars
    /\ [][opc = "primitive" =>
            /\ opc' = "children"
            /\ opos' = 1
            /\ logged' = logged \cup {LoggedCall(OwnId(ord_first),
                                                 OwnId(ord_then))}]_vars
    /\ [][(opc = "children" /\ opos <= Len(ThenChildren)) =>
            LET k == ChildLookup
                child == ThenChildren[opos]
                updated == /\ k # 0
                           /\ pe_action_runnable
                                \in action_flags(child.actions[k])
                then_id == ActionId(child.id, child.actions[k])
                u == update_ordered_actions(ord_first.flags,
                        child.actions[k].flags, ord_flags, ord_type)
                propagated == /\ updated
                              /\ pcmk__updated_then \in u.changed
            IN /\ CallsOf(logged', "update_ordered_actions")
                    \ CallsOf(logged, "update_ordered_actions")
                    = IF updated
                      THEN {LoggedCall(OwnId(ord_first), then_id)}
                      ELSE {}
               /\ CallsOf(logged', "pcmk__update_action_for_orderings")
                    \ CallsOf(logged, "pcmk__update_action_for_orderings")
                    = IF propagated
                      THEN {LoggedPropagation(then_id, e.then) :
                                e \in {x \in graph : x.first = then_id}}
                      ELSE {}
               /\ ~updated => /\ rscs' = rscs
                              /\ changed' = changed
                              /\ ord_first' = ord_first
               /\ updated => changed' = changed \cup u.changed
               /\ opos' = opos + 1]_vars

\* The non-interleaved path is over: the first child's runnable start was
\* updated after the primitive update and reported then as updated, so
\* propagation was re-run on its outgoing edge; the second child's start,
\* not runnable, was not updated
C35_Witness ==
    /\ opc = "done"
    /\ runs = 1
    /\ ~Interleaved
    /\ ord_then.rsc # NULL
    /\ ord_then.task = RSC_START
    /\ Len(ThenChildren) = 2
    /\ LoggedCall(OwnId(ord_first), OwnId(ord_then)) \in logged
    /\ \E l \in CallsOf(logged, "update_ordered_actions") :
            l.then[1] = ThenChildren[1].id
    /\ \E l \in CallsOf(logged, "pcmk__update_action_for_orderings") :
            l.first[1] = ThenChildren[1].id
    /\ \A l \in CallsOf(logged, "update_ordered_actions") :
            l.then[1] # ThenChildren[2].id
    /\ \E k \in 1..Len(ThenChildren[2].actions) :
            ThenChildren[2].actions[k].task = RSC_START

\* The positions of the option list
OptIdx == 1..Len(option_list)

\* The place in the output of the item of an emitted option, and of a header
ItemAt(option) ==
    CHOOSE i \in 1..Len(output) :
        output[i].call = "list_item" /\ output[i].id = option.name
HeaderAt(title) == CHOOSE i \in 1..Len(output) : output[i] = Header(title)

\* The part of the output an option belongs to: 0 for the ordinary options,
\* 1 for the advanced group, 2 for the deprecated group
GroupOf(option) ==
    IF InDeprecatedGroup(option) THEN 2
    ELSE IF InAdvancedGroup(option) THEN 1
    ELSE 0

\* C36: in the finished output the ordinary options come first, then the
\* group ADVANCED OPTIONS, then the group DEPRECATED OPTIONS; two options of
\* the same part are in the order of the input list; an option of a group is
\* below the group's header and an option outside it is not; every option
\* emitted has all the flags of the filter, and an ordinary option that has
\* them is emitted
C36_OrdinaryThenAdvancedThenDeprecated ==
    xpc = "done" =>
        /\ \A k \in OptIdx :
                Emitted(option_list[k]) =>
                    pcmk_all_flags_set(option_list[k].flags, opt_filter)
        /\ \A k \in OptIdx :
                (/\ GroupOf(option_list[k]) = 0
                 /\ pcmk_all_flags_set(option_list[k].flags, opt_filter))
                    => Emitted(option_list[k])
        /\ \A j, k \in OptIdx :
                (/\ Emitted(option_list[j])
                 /\ Emitted(option_list[k])
                 /\ \/ GroupOf(option_list[j]) < GroupOf(option_list[k])
                    \/ /\ GroupOf(option_list[j]) = GroupOf(option_list[k])
                       /\ j < k)
                    => ItemAt(option_list[j]) < ItemAt(option_list[k])
        /\ \A k \in OptIdx :
                Emitted(option_list[k]) =>
                    /\ GroupOf(option_list[k]) = 1
                            => HeaderEmitted(ADVANCED_OPTIONS)
                    /\ GroupOf(option_list[k]) = 2
                            => HeaderEmitted(DEPRECATED_OPTIONS)
                    /\ HeaderEmitted(ADVANCED_OPTIONS) =>
                            ((HeaderAt(ADVANCED_OPTIONS)
                                < ItemAt(option_list[k]))
                                <=> GroupOf(option_list[k]) >= 1)
                    /\ HeaderEmitted(DEPRECATED_OPTIONS) =>
                            ((HeaderAt(DEPRECATED_OPTIONS)
                                < ItemAt(option_list[k]))
                                <=> GroupOf(option_list[k]) = 2)
        /\ (HeaderEmitted(ADVANCED_OPTIONS)
                /\ HeaderEmitted(DEPRECATED_OPTIONS))
                => HeaderAt(ADVANCED_OPTIONS) < HeaderAt(DEPRECATED_OPTIONS)

\* A list of a deprecated, an advanced and an ordinary option, in this
\* order, put out with all set: the ordinary one, the header ADVANCED
\* OPTIONS, the advanced one, the header DEPRECATED OPTIONS, the deprecated
\* one
C36_Witness ==
    /\ xpc = "done"
    /\ opt_all
    /\ opt_filter = {}
    /\ Len(option_list) = 3
    /\ GroupOf(option_list[1]) = 2
    /\ GroupOf(option_list[2]) = 1
    /\ GroupOf(option_list[3]) = 0
    /\ Emitted(option_list[1])
    /\ Emitted(option_list[2])
    /\ Emitted(option_list[3])
    /\ ItemAt(option_list[3]) < HeaderAt(ADVANCED_OPTIONS)
    /\ HeaderAt(ADVANCED_OPTIONS) < ItemAt(option_list[2])
    /\ ItemAt(option_list[2]) < HeaderAt(DEPRECATED_OPTIONS)
    /\ HeaderAt(DEPRECATED_OPTIONS) < ItemAt(option_list[1])

\* The items of the output that name the option
ItemsOf(option) ==
    {i \in 1..Len(output) :
        output[i].call = "list_item" /\ output[i].id = option.name}

\* The option has the deprecated and the advanced flag
BothFlags(option) ==
    /\ pcmk__opt_deprecated \in option.flags
    /\ pcmk__opt_advanced \in option.flags

NothingToUpdate ==
    /\ opc = "entry"
    /\ ~can_interleave_actions(ord_first, ord_then)
    /\ ord_then.rsc = NULL

\* C39: called with a pair that is not interleave-eligible and whose then
\* action has no resource, pcmk__multi_update_actions returns at once with
\* the empty updated mask; no flag of first, of then or of an action of a
\* child changes, no ordering edge is added, and no update is called
C39_NoResourceNoChange ==
    [][NothingToUpdate =>
        /\ opc' = "done"
        /\ changed' = pcmk__updated_none
        /\ ord_first' = ord_first
        /\ ord_then' = ord_then
        /\ rscs' = rscs
        /\ graph' = graph
        /\ added' = {}
        /\ logged' = {}]_vars

\* The call has returned for a runnable then without a resource ordered
\* after an unrunnable start of a clone, under runnable_left: then is still
\* runnable and the mask is empty
C39_Witness ==
    /\ opc = "done"
    /\ runs = 1
    /\ ord_then.rsc = NULL
    /\ ord_first.rsc # NULL
    /\ pe_action_runnable \notin ord_first.flags
    /\ pe_action_runnable \in ord_then.flags
    /\ pe_order_runnable_left \in ord_type
    /\ changed = pcmk__updated_none
    /\ graph = {}
    /\ logged = {}

\* C37 as stated: at exit, for every allowed node of the collective, the
\* node's count is the number of the collective's instances assigned to it
C37_CountIsAssignedAtExit ==
    Done => \A n \in DOMAIN collective.allowed_nodes :
                collective.allowed_nodes[n].count = Cardinality(OnNode(n))

\* C37 as amended: at exit, for every allowed node of the collective, the
\* node's count is the number of instances assigned to it that were
\* provisional on entry, the ones this call assigned; an instance that was
\* assigned on entry is where it was and is in no count
C37_CountIsPlacedAtExit ==
    Done =>
        /\ \A n \in DOMAIN collective.allowed_nodes :
                /\ collective.allowed_nodes[n].count
                        = Cardinality(PlacedOnNode(n))
                /\ collective.allowed_nodes[n].count
                        = Cardinality(OnNode(n))
                            - Cardinality({i \in OnNode(n) :
                                                ~ProvisionalOnEntry(i)})
        /\ \A i \in Idx :
                ~ProvisionalOnEntry(i)
                    => instances[i].allocated_to = entry[i].allocated_to

\* At exit node a has one instance that was assigned to it on entry and
\* one the call assigned to it, and its count is 1
C37_Witness ==
    /\ Done
    /\ "a" \in DOMAIN collective.allowed_nodes
    /\ collective.allowed_nodes["a"].count = 1
    /\ Cardinality(OnNode("a")) = 2
    /\ Cardinality(PlacedOnNode("a")) = 1

\* The early loop is running, or is just over
EarlyPhase ==
    \/ pc \in {"early", "early_assign", "early_native"}
    \/ pc = "final" /\ iter = 1

\* The smaller of optimal_per_node and max_per_node
EarlyLimit ==
    IF optimal_per_node < max_per_node THEN optimal_per_node
    ELSE max_per_node

\* C38: during the early loop and when it is over, no node has more than
\* min(optimal_per_node, max_per_node) instances assigned to it by the loop,
\* and every instance the loop assigned is on the node it was running on
C38_EarlyLoopWithinOptimal ==
    EarlyPhase =>
        /\ \A n \in Nodes : Cardinality(PlacedOnNode(n)) <= EarlyLimit
        /\ \A i \in Placed : instances[i].allocated_to = entry[i].running_on

\* The early loop is over: node a has optimal_per_node instances, fewer
\* than max_per_node, assigned to it by the loop, and another instance
\* running on a was left for the final loop
C38_Witness ==
    /\ pc = "final"
    /\ iter = 1
    /\ optimal_per_node < max_per_node
    /\ Cardinality(PlacedOnNode("a")) = optimal_per_node
    /\ \E i \in Idx : /\ Provisional(i)
                      /\ instances[i].running_on = "a"
                      /\ ~pcmk_is_set(instances[i].flags, pe_rsc_failed)
                      /\ ~pcmk_is_set(instances[i].flags, pe_rsc_orphan)

====
